---- MODULE Spec2Model ----
(***************************************************************************)
(* A model of MaroviTranslation: the NeurIPS section parser, the block     *)
(* classifier, the Document/Section/ContentElement tree with its JSON and  *)
(* Markdown conversions, the Markdown writer, the Translator, the text     *)
(* extraction of PDFParser and the PDF-to-Markdown converter.              *)
(*                                                                         *)
(* Python strings are modelled as sequences of one-character strings, so   *)
(* that splitting, stripping, parsing of integers and the regular          *)
(* expressions are computed character by character as the code does.       *)
(***************************************************************************)
EXTENDS Integers, Sequences, FiniteSets, TLC

VARIABLES
    \* PDFParser.is_valid_section_transition / is_large_gap called directly
    last_section_num, current_section_num, valid_result, gap_result,
    \* NeurIPSParser.extract_sections
    text, matches, filtered_sections, processed_sections, extracted_sections, pc,
    \* PDFParser.is_likely_table_or_figure
    block_text, block_result,
    \* Document / Section / ContentElement
    doc, json_data, from_json_result, markdown, from_markdown_result, doc_pc,
    \* Markdown writer, the file system it looks at, ContentElement.to_markdown
    content, image_counter, existing_paths, writer_call, writer_exc, rendered,
    \* Translator
    translator, translator_log,
    \* PDFParser.extract_text
    pdf_blocks, page_text, extract_pc,
    \* NeurIPSPDFToSpanishMarkdown: its fields, the two writers and the index of the
    \* loop of generate_markdown, and the calls made on the two writers
    conv_translator, image_paths, conv_image_map, conv_i, markdown_en, markdown_es, conv_pc,
    conv_log,
    \* Document.from_markdown line by line: the lines, the index of the next line, the
    \* locals of the loop, and the depth and place of every heading read so far
    md_lines, md_i, md_st, md_log

transitionVars == <<last_section_num, current_section_num, valid_result, gap_result>>
parserVars == <<text, matches, filtered_sections, processed_sections, extracted_sections, pc>>
blockVars == <<block_text, block_result>>
docVars == <<doc, json_data, from_json_result, markdown, from_markdown_result, doc_pc>>
writerVars == <<content, image_counter, existing_paths, writer_call, writer_exc, rendered>>
translatorVars == <<translator, translator_log>>
extractVars == <<pdf_blocks, page_text, extract_pc>>
converterVars == <<conv_translator, image_paths, conv_image_map, conv_i, markdown_en, markdown_es,
                   conv_pc, conv_log>>
linesVars == <<md_lines, md_i, md_st, md_log>>
vars == <<transitionVars, parserVars, blockVars, docVars, writerVars, translatorVars,
          extractVars, converterVars, linesVars>>

(***************************************************************************)
(* Python built-ins on strings                                             *)
(***************************************************************************)
NL == "\n"

DigitChars == {"0", "1", "2", "3", "4", "5", "6", "7", "8", "9"}
UpperChars == {"A", "B", "C", "D", "E", "F", "G", "H", "I", "J", "K", "L", "M",
               "N", "O", "P", "Q", "R", "S", "T", "U", "V", "W", "X", "Y", "Z"}
LowerChars == {"a", "b", "c", "d", "e", "f", "g", "h", "i", "j", "k", "l", "m",
               "n", "o", "p", "q", "r", "s", "t", "u", "v", "w", "x", "y", "z"}
SpaceChars == {" ", NL, "\t"}

\* str.isdigit(), str.islower(), str.isupper() of one character
isdigit(c) == c \in DigitChars
islower(c) == c \in LowerChars
isupper(c) == c \in UpperChars

\* s[a:b] with 1-based inclusive positions; empty when a > b
Slice(s, a, b) == IF a > b THEN <<>> ELSE SubSeq(s, a, b)

\* ''.join(seq of strings)
RECURSIVE Concat(_)
Concat(ss) == IF ss = <<>> THEN <<>> ELSE Head(ss) \o Concat(Tail(ss))

\* sep.join(seq of strings), sep a string
RECURSIVE Join(_, _)
Join(ss, sep) ==
    IF ss = <<>> THEN <<>>
    ELSE IF Len(ss) = 1 THEN ss[1]
    ELSE ss[1] \o sep \o Join(Tail(ss), sep)

\* s.startswith(p) at 1-based position i
StartsAt(s, p, i) == i + Len(p) - 1 <= Len(s) /\ SubSeq(s, i, i + Len(p) - 1) = p

\* s.find(sep, i): the least position >= i where sep occurs, 0 when none
Find(s, sep, i) ==
    LET hits == {k \in i..Len(s) : StartsAt(s, sep, k)}
    IN IF hits = {} THEN 0 ELSE CHOOSE k \in hits : \A h \in hits : k <= h

\* s.split(sep): every piece, empty pieces kept
RECURSIVE Split(_, _)
Split(s, sep) ==
    LET k == Find(s, sep, 1)
    IN IF k = 0 THEN <<s>>
       ELSE <<Slice(s, 1, k - 1)>> \o Split(Slice(s, k + Len(sep), Len(s)), sep)

\* s.split(sep, maxsplit)
RECURSIVE SplitMax(_, _, _)
SplitMax(s, sep, maxsplit) ==
    LET k == Find(s, sep, 1)
    IN IF maxsplit = 0 \/ k = 0 THEN <<s>>
       ELSE <<Slice(s, 1, k - 1)>>
            \o SplitMax(Slice(s, k + Len(sep), Len(s)), sep, maxsplit - 1)

\* s.count(c) for a one-character c
Count(s, c) == Cardinality({i \in 1..Len(s) : s[i] = c})

\* s.strip(): leading and trailing whitespace removed
Strip(s) ==
    LET keep == {i \in 1..Len(s) : s[i] \notin SpaceChars}
    IN IF keep = {} THEN <<>>
       ELSE Slice(s, CHOOSE i \in keep : \A j \in keep : i <= j,
                     CHOOSE i \in keep : \A j \in keep : i >= j)

\* int(c) of one decimal digit
DigitVal(c) ==
    CASE c = "0" -> 0 [] c = "1" -> 1 [] c = "2" -> 2 [] c = "3" -> 3 [] c = "4" -> 4
      [] c = "5" -> 5 [] c = "6" -> 6 [] c = "7" -> 7 [] c = "8" -> 8 [] c = "9" -> 9

\* int(s) of a string of decimal digits
RECURSIVE ParseInt(_)
ParseInt(s) == IF s = <<>> THEN 0 ELSE 10 * ParseInt(Slice(s, 1, Len(s) - 1)) + DigitVal(s[Len(s)])

\* [int(part) for part in num.split('.')]
Parts(num) == LET ps == Split(num, <<".">>) IN [i \in 1..Len(ps) |-> ParseInt(ps[i])]

\* Python's list comparison a < b (lexicographic, a proper prefix is smaller)
RECURSIVE ListLess(_, _)
ListLess(a, b) ==
    IF b = <<>> THEN FALSE
    ELSE IF a = <<>> THEN TRUE
    ELSE IF a[1] # b[1] THEN a[1] < b[1]
    ELSE ListLess(Tail(a), Tail(b))

\* Python None
None == <<"None">>

\* what a call gives back: a value, or the exception it raised
Returned(v) == [exc |-> "None", val |-> v]
RaisedBool(e) == [exc |-> e, val |-> FALSE]
NotCalled == [exc |-> "NotCalled", val |-> FALSE]

(***************************************************************************)
(* PDFParser.is_valid_section_transition and PDFParser.is_large_gap        *)
(***************************************************************************)
\* the loop over range(len(last_parts)), from index i (1-based)
RECURSIVE TransitionLoop(_, _, _)
TransitionLoop(last_parts, current_parts, i) ==
    IF i > Len(last_parts) THEN Returned(Len(current_parts) > Len(last_parts))
    ELSE IF i > Len(current_parts) THEN RaisedBool("IndexError")
    ELSE IF current_parts[i] < last_parts[i] THEN Returned(FALSE)
    ELSE IF current_parts[i] > last_parts[i]
         THEN Returned(\A j \in (i + 1)..Len(current_parts) : current_parts[j] = 0)
    ELSE TransitionLoop(last_parts, current_parts, i + 1)

\* the final comparison written >= : the same section number twice passes
is_valid_section_transition_allowing_equal(last_num, current_num) ==
    LET last_parts == Parts(last_num)
        current_parts == Parts(current_num)
    IN IF last_parts = current_parts THEN Returned(TRUE)
       ELSE IF Len(current_parts) > Len(last_parts) + 1 THEN Returned(FALSE)
       ELSE TransitionLoop(last_parts, current_parts, 1)

is_valid_section_transition(last_num, current_num) ==
    LET last_parts == Parts(last_num)
        current_parts == Parts(current_num)
    IN IF Len(current_parts) > Len(last_parts) + 1 THEN Returned(FALSE)
       ELSE TransitionLoop(last_parts, current_parts, 1)

gap_threshold == 1

is_large_gap(last_num, current_num) ==
    LET last_main_section == ParseInt(Split(last_num, <<".">>)[1])
        current_main_section == ParseInt(Split(current_num, <<".">>)[1])
    IN (current_main_section - last_main_section) > gap_threshold

(***************************************************************************)
(* Section numbers given to the validator                                  *)
(***************************************************************************)
MaxPart == 3
MaxDepth == 2

\* str(n) of one component 0..9
DigitChar(n) ==
    CASE n = 0 -> "0" [] n = 1 -> "1" [] n = 2 -> "2" [] n = 3 -> "3" [] n = 4 -> "4"
      [] n = 5 -> "5" [] n = 6 -> "6" [] n = 7 -> "7" [] n = 8 -> "8" [] n = 9 -> "9"

\* '.'.join(str(p) for p in parts)
NumeralOf(parts) == Join([i \in 1..Len(parts) |-> <<DigitChar(parts[i])>>], <<".">>)

PartTuples == UNION {[1..d -> 0..MaxPart] : d \in 1..MaxDepth}

\* section numbers with two-digit components, leading zeros and three levels
SpecialNumbers ==
    { <<"9">>, <<"1", "0">>, <<"0", "1">>, <<"1", ".", "1", "0">>,
      <<"1", ".", "1", ".", "1">>, <<"1", ".", "1", ".", "2">>, <<"2", ".", "0", ".", "1">> }

SectionNumbers == {NumeralOf(p) : p \in PartTuples} \cup SpecialNumbers

InitTransition ==
    /\ last_section_num \in SectionNumbers
    /\ current_section_num \in SectionNumbers
    /\ valid_result = NotCalled
    /\ gap_result = NotCalled

IdleTransition ==
    /\ last_section_num = <<>>
    /\ current_section_num = <<>>
    /\ valid_result = NotCalled
    /\ gap_result = NotCalled

CallIsValidSectionTransition ==
    /\ valid_result = NotCalled
    /\ valid_result' = is_valid_section_transition(last_section_num, current_section_num)
    /\ UNCHANGED <<last_section_num, current_section_num, gap_result>>

CallIsLargeGap ==
    /\ gap_result = NotCalled
    /\ gap_result' = Returned(is_large_gap(last_section_num, current_section_num))
    /\ UNCHANGED <<last_section_num, current_section_num, valid_result>>

(***************************************************************************)
(* The parts of the state a specification leaves untouched                 *)
(***************************************************************************)
IdleParser ==
    /\ text = <<>>
    /\ matches = <<>>
    /\ filtered_sections = <<>>
    /\ processed_sections = <<>>
    /\ extracted_sections = <<>>
    /\ pc = "idle"

IdleBlock ==
    /\ block_text = <<>>
    /\ block_result = NotCalled

IdleDoc ==
    /\ doc = <<>>
    /\ json_data = <<>>
    /\ from_json_result = NotCalled
    /\ markdown = <<>>
    /\ from_markdown_result = NotCalled
    /\ doc_pc = "idle"

IdleTranslator ==
    /\ translator = None
    /\ translator_log = <<>>

IdleExtract ==
    /\ pdf_blocks = <<>>
    /\ page_text = <<>>
    /\ extract_pc = "idle"

IdleConverter ==
    /\ conv_translator = None
    /\ image_paths = <<>>
    /\ conv_image_map = <<>>
    /\ conv_i = 0
    /\ markdown_en = [content |-> <<>>, image_counter |-> 0]
    /\ markdown_es = [content |-> <<>>, image_counter |-> 0]
    /\ conv_pc = "idle"
    /\ conv_log = <<>>

IdleLines ==
    /\ md_lines = <<>>
    /\ md_i = 0
    /\ md_st = <<>>
    /\ md_log = <<>>

IdleWriter ==
    /\ content = <<>>
    /\ image_counter = 0
    /\ existing_paths = {}
    /\ writer_call = [op |-> "None", image_path |-> <<>>]
    /\ writer_exc = "None"
    /\ rendered = NotCalled

(***************************************************************************)
(* SpecTransition: the two checks of the validator on every pair of        *)
(* section numbers                                                         *)
(***************************************************************************)
NextTransition ==
    \/ CallIsValidSectionTransition /\ UNCHANGED <<parserVars, blockVars, docVars, writerVars, translatorVars, extractVars, converterVars, linesVars>>
    \/ CallIsLargeGap /\ UNCHANGED <<parserVars, blockVars, docVars, writerVars, translatorVars, extractVars, converterVars, linesVars>>

StartTransition == InitTransition /\ IdleParser /\ IdleBlock /\ IdleDoc /\ IdleWriter /\ IdleTranslator
    /\ IdleExtract /\ IdleConverter /\ IdleLines

SpecTransition == StartTransition /\ [][NextTransition]_vars

\* The rule of the claim, on integer tuples: a boolean for every pair.
TransitionRule(last, current) ==
    LET shared == {i \in 1..Len(last) : i <= Len(current)}
        differ == {i \in shared : current[i] # last[i]}
        first == CHOOSE i \in differ : \A j \in differ : i <= j
    IN IF Len(current) > Len(last) + 1 THEN FALSE
       ELSE IF differ = {} THEN Len(current) > Len(last)
       ELSE IF current[first] < last[first] THEN FALSE
       ELSE \A j \in (first + 1)..Len(current) : current[j] = 0

\* C2: for every pair of section numbers, also when current has fewer components
\* than last, is_valid_section_transition returns the boolean the rule gives.
C2_TransitionMatchesRule ==
    valid_result # NotCalled =>
        valid_result = Returned(TransitionRule(Parts(last_section_num),
                                               Parts(current_section_num)))

\* the next heading is accepted by post_process_sections: no large gap, valid transition
Accepted == gap_result = Returned(FALSE) /\ valid_result = Returned(TRUE)

\* C9: with 1.1 last accepted, 1.2 and 2 are accepted, 1.3 is not a valid transition
\* and is a large gap, and 3 is not a valid transition.
C9_DocstringTransitions ==
    (/\ last_section_num = <<"1", ".", "1">>
     /\ valid_result # NotCalled
     /\ gap_result # NotCalled) =>
        /\ current_section_num = <<"1", ".", "2">> => Accepted
        /\ current_section_num = <<"2">> => Accepted
        /\ current_section_num = <<"1", ".", "3">> =>
              valid_result = Returned(FALSE) /\ gap_result = Returned(TRUE)
        /\ current_section_num = <<"3">> => valid_result = Returned(FALSE)

(***************************************************************************)
(* NeurIPSParser.post_process_sections                                     *)
(* A candidate is the tuple <<section_number, section_title, start, end>>. *)
(***************************************************************************)
ReturnedSeq(v) == [exc |-> "None", val |-> v]
RaisedSeq(e) == [exc |-> e, val |-> <<>>]

\* the order of two numerals as text, which sorted() without the int() key would use
CharRank(c) == IF c = "." THEN 0 ELSE DigitVal(c) + 1
RECURSIVE TextLess(_, _)
TextLess(a, b) ==
    IF b = <<>> THEN FALSE
    ELSE IF a = <<>> THEN TRUE
    ELSE IF a[1] # b[1] THEN CharRank(a[1]) < CharRank(b[1])
    ELSE TextLess(Tail(a), Tail(b))

\* one insertion of a sort whose key is the numeral as text
InsertByNumeral_by_text(x, s) ==
    LET n == Cardinality({i \in 1..Len(s) : ~TextLess(x[1], s[i][1])})
    IN Slice(s, 1, n) \o <<x>> \o Slice(s, n + 1, Len(s))

\* one insertion of sorted(): x goes after every element whose key is not greater
InsertByNumeral(x, s) ==
    LET n == Cardinality({i \in 1..Len(s) : ~ListLess(Parts(x[1]), Parts(s[i][1]))})
    IN Slice(s, 1, n) \o <<x>> \o Slice(s, n + 1, Len(s))

\* sorted(sections_with_spans, key=lambda x: [int(part) for part in x[0].split('.')])
RECURSIVE SortedByNumeral(_)
SortedByNumeral(xs) ==
    IF xs = <<>> THEN <<>>
    ELSE InsertByNumeral(xs[Len(xs)], SortedByNumeral(Slice(xs, 1, Len(xs) - 1)))

\* the for loop of post_process_sections from the i-th sorted candidate
RECURSIVE PostProcessLoop(_, _, _)
PostProcessLoop(sorted, i, valid_sections) ==
    IF i > Len(sorted) THEN ReturnedSeq(valid_sections)
    ELSE IF valid_sections = <<>> THEN PostProcessLoop(sorted, i + 1, <<sorted[i]>>)
    ELSE LET last_num == valid_sections[Len(valid_sections)][1]
             num == sorted[i][1]
             valid == is_valid_section_transition(last_num, num)
         IN IF is_large_gap(last_num, num) THEN PostProcessLoop(sorted, i + 1, valid_sections)
            ELSE IF valid.exc # "None" THEN RaisedSeq(valid.exc)
            ELSE IF ~valid.val THEN PostProcessLoop(sorted, i + 1, valid_sections)
            ELSE PostProcessLoop(sorted, i + 1, Append(valid_sections, sorted[i]))

post_process_sections(sections_with_spans) ==
    PostProcessLoop(SortedByNumeral(sections_with_spans), 1, <<>>)

(***************************************************************************)
(* NeurIPSParser.extract_sections: the heading pattern                     *)
(*   \n ( \d+ ( \.\d+ )* ) \s* ( [A-Za-z][^\n.]* )? ( \n[^\n\d]+ )?           *)
(* Everything after \n\d+ may match the empty string, so the first match   *)
(* of the backtracking search takes the longest run at every step.         *)
(* Positions are 1-based here; start and end are kept as Python offsets.   *)
(***************************************************************************)

\* the position after the longest run, from position p, of characters in S
RunIn(t, p, S) ==
    LET stops == {k \in p..Len(t) : t[k] \notin S}
    IN IF stops = {} THEN Len(t) + 1 ELSE CHOOSE k \in stops : \A j \in stops : k <= j

\* the position after the longest run, from position p, of characters not in S
RunNotIn(t, p, S) ==
    LET stops == {k \in p..Len(t) : t[k] \in S}
    IN IF stops = {} THEN Len(t) + 1 ELSE CHOOSE k \in stops : \A j \in stops : k <= j

Letters == UpperChars \cup LowerChars
NewlineOrDot == {NL, "."}
NewlineOrDigit == {NL} \cup DigitChars

\* zero or more groups .digits from position q: the position after the last complete .digits group
RECURSIVE DottedEnd(_, _)
DottedEnd(t, q) ==
    IF q + 1 <= Len(t) /\ t[q] = "." /\ isdigit(t[q + 1])
    THEN DottedEnd(t, RunIn(t, q + 1, DigitChars))
    ELSE q

\* whether the pattern matches at position p
MatchesAt(t, p) == p + 1 <= Len(t) /\ t[p] = NL /\ isdigit(t[p + 1])

\* the match object of a match at position p
MatchAt(t, p) ==
    LET q == DottedEnd(t, RunIn(t, p + 1, DigitChars))
        r == RunIn(t, q, SpaceChars)
        has3 == r <= Len(t) /\ t[r] \in Letters
        e3 == IF has3 THEN RunNotIn(t, r + 1, NewlineOrDot) ELSE r
        has4 == e3 + 1 <= Len(t) /\ t[e3] = NL /\ t[e3 + 1] \notin NewlineOrDigit
        e4 == IF has4 THEN RunNotIn(t, e3 + 1, NewlineOrDigit) ELSE e3
    IN [group1 |-> Slice(t, p + 1, q - 1),
        group3 |-> IF has3 THEN Slice(t, r, e3 - 1) ELSE None,
        group4 |-> IF has4 THEN Slice(t, e3, e4 - 1) ELSE None,
        start |-> p - 1,
        end |-> e4 - 1]

\* list(re.finditer(pattern, text)) searching from position p
RECURSIVE FindIter(_, _)
FindIter(t, p) ==
    LET hits == {k \in p..Len(t) : MatchesAt(t, k)}
        k == CHOOSE k \in hits : \A j \in hits : k <= j
        m == MatchAt(t, k)
    IN IF hits = {} THEN <<>> ELSE <<m>> \o FindIter(t, m.end + 1)

\* match.group(3) or (match.group(4).strip() if match.group(4) else '')
SectionTitle(m) ==
    IF m.group3 # None /\ m.group3 # <<>> THEN m.group3
    ELSE IF m.group4 # None /\ m.group4 # <<>> THEN Strip(m.group4)
    ELSE <<>>

MaxTitleLen == 50
MinTitleLen == 5

\* the filter without its test of the first character
FilteredOut_no_case_check(section_title) ==
    \/ Len(section_title) > MaxTitleLen
    \/ Len(section_title) < MinTitleLen

\* the pre-filtering criteria: TRUE when the candidate is skipped
FilteredOut(section_title) ==
    \/ Len(section_title) > MaxTitleLen
    \/ Len(section_title) < MinTitleLen
    \/ islower(section_title[1])

\* the loop building filtered_sections
RECURSIVE FilterMatches(_)
FilterMatches(ms) ==
    IF ms = <<>> THEN <<>>
    ELSE LET m == Head(ms)
             section_title == SectionTitle(m)
         IN (IF FilteredOut(section_title) THEN <<>>
             ELSE << <<m.group1, section_title, m.start, m.end>> >>)
            \o FilterMatches(Tail(ms))

\* the body of one section: the span, stripped, without its first two lines
SectionContent(t, processed, i) ==
    LET start_content == processed[i][3]
        end_content == IF i + 1 <= Len(processed) THEN processed[i + 1][3] ELSE Len(t)
        section_content == Strip(Slice(t, start_content + 1, end_content))
        pieces == SplitMax(section_content, <<NL>>, 2)
    IN Join(Slice(pieces, 3, Len(pieces)), <<NL>>)

\* the loop building extracted_sections: [full_title, section_content] per heading
ExtractContent(t, processed) ==
    [i \in 1..Len(processed) |->
        << processed[i][1] \o <<" ">> \o processed[i][2], SectionContent(t, processed, i) >>]

ReferencesMark == <<NL, "R", "e", "f", "e", "r", "e", "n", "c", "e", "s">>

\* extracted_sections[-1][1] = extracted_sections[-1][1].split("\nReferences")[0]
TruncateReferences(extracted) ==
    IF extracted = <<>> THEN RaisedSeq("IndexError")
    ELSE LET n == Len(extracted)
         IN ReturnedSeq([extracted EXCEPT ![n] =
                <<extracted[n][1], Split(extracted[n][2], ReferencesMark)[1]>>])

(***************************************************************************)
(* Texts given to extract_sections                                         *)
(***************************************************************************)
MaxChunks == 3
MaxCands == 3

\* a title of MaxTitleLen + 1 characters, and one of exactly MaxTitleLen
LongTitle == <<"L">> \o [i \in 1..MaxTitleLen |-> "o"]
FullTitle == <<"F">> \o [i \in 1..(MaxTitleLen - 1) |-> "u"]

\* lines (or wrapped headings) a text is made of
Chunks ==
    { <<"1", " ", "I", "n", "t", "r", "o">>,
      <<"2", " ", "M", "o", "d", "e", "l">>,
      <<"2", ".", "1", " ", "P", "r", "i", "o", "r">>,
      <<"1", NL, "I", "n", "t", "r", "o">>,
      <<"B", "o", "d", "y", " ", "t", "e", "x", "t", ".">>,
      <<"S", "e", "e", " ", "[", "1", "]", " ", "t", "o", "o">>,
      <<"R", "e", "f", "e", "r", "e", "n", "c", "e", "s">>,
      <<"3", " ", "a", "b">>,
      <<"3", " ", "t", "e", "s", "t", "s">>,
      <<"4", " ">> \o LongTitle,
      <<"3", " ">> \o FullTitle }

\* the end-to-end scenario
ExampleText ==
    <<NL, "1", " ", "I", "n", "t", "r", "o", "d", "u", "c", "t", "i", "o", "n", NL, "B", "o", "d", "y", " ", "t", "e", "x", "t", " ", "h", "e", "r", "e", ".", NL, "2", " ", "B", "a", "c", "k", "g", "r", "o", "u", "n", "d", NL, "M", "o", "r", "e", " ", "t", "e", "x", "t", ".">>
    \o <<NL, "2", ".", "1", " ", "P", "r", "i", "o", "r", " ", "W", "o", "r", "k", NL, "E", "v", "e", "n", " ", "m", "o", "r", "e", ".", NL, "R", "e", "f", "e", "r", "e", "n", "c", "e", "s", NL, "[", "1", "]", " ", "f", "o", "o">>

\* every line preceded by a newline
TextOf(chunks) == Concat([i \in 1..Len(chunks) |-> <<NL>> \o chunks[i]])

ParserTexts ==
    {ExampleText} \cup {TextOf(cs) : cs \in UNION {[1..n -> Chunks] : n \in 0..MaxChunks}}

InitParser ==
    /\ text \in ParserTexts
    /\ matches = <<>>
    /\ filtered_sections = <<>>
    /\ processed_sections = <<>>
    /\ extracted_sections = <<>>
    /\ pc = "scan"

\* matches = list(re.finditer(pattern, text))
Scan ==
    /\ pc = "scan"
    /\ matches' = FindIter(text, 1)
    /\ pc' = "filter"
    /\ UNCHANGED <<text, filtered_sections, processed_sections, extracted_sections>>

\* the loop over matches with the pre-filtering criteria
Filter ==
    /\ pc = "filter"
    /\ filtered_sections' = FilterMatches(matches)
    /\ pc' = "post"
    /\ UNCHANGED <<text, matches, processed_sections, extracted_sections>>

\* processed_sections = self.post_process_sections(filtered_sections)
PostProcess ==
    /\ pc = "post"
    /\ LET r == post_process_sections(filtered_sections)
       IN /\ processed_sections' = r.val
          /\ pc' = IF r.exc = "None" THEN "content" ELSE r.exc
    /\ UNCHANGED <<text, matches, filtered_sections, extracted_sections>>

\* the loop over processed_sections that slices the text
Segment ==
    /\ pc = "content"
    /\ extracted_sections' = ExtractContent(text, processed_sections)
    /\ pc' = "truncate"
    /\ UNCHANGED <<text, matches, filtered_sections, processed_sections>>

\* the References cut of the last section, and the return
Truncate ==
    /\ pc = "truncate"
    /\ LET r == TruncateReferences(extracted_sections)
       IN /\ extracted_sections' = r.val
          /\ pc' = IF r.exc = "None" THEN "done" ELSE r.exc
    /\ UNCHANGED <<text, matches, filtered_sections, processed_sections>>

NextParser ==
    \/ Scan /\ UNCHANGED <<transitionVars, blockVars, docVars, writerVars, translatorVars, extractVars, converterVars, linesVars>>
    \/ Filter /\ UNCHANGED <<transitionVars, blockVars, docVars, writerVars, translatorVars, extractVars, converterVars, linesVars>>
    \/ PostProcess /\ UNCHANGED <<transitionVars, blockVars, docVars, writerVars, translatorVars, extractVars, converterVars, linesVars>>
    \/ Segment /\ UNCHANGED <<transitionVars, blockVars, docVars, writerVars, translatorVars, extractVars, converterVars, linesVars>>
    \/ Truncate /\ UNCHANGED <<transitionVars, blockVars, docVars, writerVars, translatorVars, extractVars, converterVars, linesVars>>

StartParser == InitParser /\ IdleTransition /\ IdleBlock /\ IdleDoc /\ IdleWriter /\ IdleTranslator
    /\ IdleExtract /\ IdleConverter /\ IdleLines

SpecParser == StartParser /\ [][NextParser]_vars

(***************************************************************************)
(* SpecPost: post_process_sections on the candidates of texts made of      *)
(* heading lines with every sequence of section numbers                    *)
(***************************************************************************)
PostNumbers ==
    { <<"1">>, <<"2">>, <<"3">>, <<"1", ".", "1">>, <<"1", ".", "2">>, <<"2", ".", "1">>, <<"1", ".", "1", ".", "1">>,
      <<"9">>, <<"1", "0">>, <<"0", "1">>, <<"2", ".", "0">> }

HeadingsText(nums) == TextOf([i \in 1..Len(nums) |-> nums[i] \o <<" ", "T", "i", "t", "l", "e">>])

InitPost ==
    /\ \E nums \in UNION {[1..n -> PostNumbers] : n \in 0..MaxCands} :
          text = HeadingsText(nums)
    /\ matches = FindIter(text, 1)
    /\ filtered_sections = FilterMatches(matches)
    /\ processed_sections = <<>>
    /\ extracted_sections = <<>>
    /\ pc = "post"

NextPost == PostProcess /\ UNCHANGED <<transitionVars, blockVars, docVars, writerVars, translatorVars, extractVars, converterVars, linesVars>>

StartPost == InitPost /\ IdleTransition /\ IdleBlock /\ IdleDoc /\ IdleWriter /\ IdleTranslator
    /\ IdleExtract /\ IdleConverter /\ IdleLines

SpecPost == StartPost /\ [][NextPost]_vars

(***************************************************************************)
(* Claims about extract_sections (SpecParser) and post_process_sections    *)
(* (SpecPost)                                                              *)
(***************************************************************************)
ExampleSections ==
    << << <<"1", " ", "I", "n", "t", "r", "o", "d", "u", "c", "t", "i", "o", "n">>, <<"B", "o", "d", "y", " ", "t", "e", "x", "t", " ", "h", "e", "r", "e", ".">> >>,
       << <<"2", " ", "B", "a", "c", "k", "g", "r", "o", "u", "n", "d">>, <<"M", "o", "r", "e", " ", "t", "e", "x", "t", ".">> >>,
       << <<"2", ".", "1", " ", "P", "r", "i", "o", "r", " ", "W", "o", "r", "k">>, <<"E", "v", "e", "n", " ", "m", "o", "r", "e", ".">> >> >>

\* the heading line "<numeral> <title>" of the i-th validated heading, with its newline
HeadingLine(i) == <<NL>> \o processed_sections[i][1] \o <<" ">> \o processed_sections[i][2]

\* the i-th validated heading occupies one line and body lines follow it
OneLineHeading(i) ==
    LET first == processed_sections[i][3] + 1
        after == first + Len(HeadingLine(i))
    IN /\ StartsAt(text, HeadingLine(i), first)
       /\ after < processed_sections[i + 1][3] + 1
       /\ text[after] = NL

\* all the lines between the i-th heading line and the next validated heading line
LinesUpToNextHeading(i) ==
    Slice(text, processed_sections[i][3] + Len(HeadingLine(i)) + 2, processed_sections[i + 1][3])

\* C1: with one-line headings followed by body lines, extract_sections returns one
\* [title, body] entry per validated heading, the title '<numeral> <title>' and the body
\* all the lines up to the next validated heading; the scenario text yields the three
\* sections 1 Introduction, 2 Background and 2.1 Prior Work with their bodies.
C1_EndToEndExtraction ==
    /\ (pc = "done" /\ text = ExampleText) => extracted_sections = ExampleSections
    /\ pc = "done" =>
          /\ Len(extracted_sections) = Len(processed_sections)
          /\ \A i \in 1..(Len(processed_sections) - 1) :
                OneLineHeading(i) =>
                    extracted_sections[i] =
                        << processed_sections[i][1] \o <<" ">> \o processed_sections[i][2],
                           LinesUpToNextHeading(i) >>

\* C6: when no heading candidate survives the filter and the validator,
\* extract_sections completes without raising and returns an empty list.
C6_EmptyInputIsNotAnError ==
    (pc \in {"truncate", "done", "IndexError"} /\ processed_sections = <<>>) =>
        /\ pc # "IndexError"
        /\ pc = "done" => extracted_sections = <<>>

\* the title of a match as the claim words it
ClaimedTitle(m) ==
    IF m.group3 # None THEN m.group3
    ELSE IF m.group4 # None THEN Strip(m.group4)
    ELSE <<>>

Survives(m) ==
    \E i \in 1..Len(filtered_sections) :
        filtered_sections[i] = <<m.group1, ClaimedTitle(m), m.start, m.end>>

\* C8: every candidate that survives the filter has a title of 5 to 50 characters
\* whose first character is uppercase; a title shorter than 5 or longer than 50 is
\* rejected and a title of exactly 5 characters starting uppercase is accepted.
C8_FilteredTitleShape ==
    pc \in {"post", "content", "truncate", "done", "IndexError"} =>
        /\ \A i \in 1..Len(filtered_sections) :
              LET title == filtered_sections[i][2]
              IN /\ Len(title) >= 5
                 /\ Len(title) <= 50
                 /\ isupper(title[1])
        /\ \A j \in 1..Len(matches) :
              LET title == ClaimedTitle(matches[j])
              IN /\ (Len(title) < 5 \/ Len(title) > 50) => ~Survives(matches[j])
                 /\ (Len(title) = 5 /\ isupper(title[1])) => Survives(matches[j])

\* a text where a 5-character title was accepted and a short, a long and a lowercase
\* title were met by the filter
C8_Witness ==
    /\ pc = "post"
    /\ \E i \in 1..Len(filtered_sections) : Len(filtered_sections[i][2]) = 5
    /\ \E j \in 1..Len(matches) :
          /\ ~Survives(matches[j])
          /\ (Len(ClaimedTitle(matches[j])) > 50 \/ Len(ClaimedTitle(matches[j])) < 5)
    /\ \E j \in 1..Len(matches) : ~Survives(matches[j]) /\ ClaimedTitle(matches[j]) # <<>>

TopLevel(cand) == Parts(cand[1])[1]

\* C3: the numerals of the list post_process_sections returns are strictly increasing
\* as integer tuples, and consecutive accepted headings differ by at most 1 at top level.
C3_ValidatedStrictlyIncreasing ==
    pc = "content" =>
        \A i \in 1..(Len(processed_sections) - 1) :
            /\ ListLess(Parts(processed_sections[i][1]), Parts(processed_sections[i + 1][1]))
            /\ TopLevel(processed_sections[i + 1]) - TopLevel(processed_sections[i]) <= 1
            /\ TopLevel(processed_sections[i]) - TopLevel(processed_sections[i + 1]) <= 1

\* three candidates of which two were accepted and one dropped
C3_Witness ==
    /\ pc = "content"
    /\ Len(filtered_sections) = 3
    /\ Len(processed_sections) = 2

(***************************************************************************)
(* PDFParser.is_likely_table_or_figure                                     *)
(***************************************************************************)
\* 0.3 in tenths
numeric_density_threshold == 3
max_allowed_newlines == 10
short_text_limit == 10
min_average_line_length == 5
max_allowed_single_word_lines == 5

\* len(line.split())
WordCount(line) ==
    Cardinality({i \in 1..Len(line) :
        line[i] \notin SpaceChars /\ (i = 1 \/ line[i - 1] \in SpaceChars)})

\* heuristic 4 read without resetting the count at a longer line
RECURSIVE SingleWordLoop_no_reset(_, _, _)
SingleWordLoop_no_reset(lines, i, single_word_line_count) ==
    IF i > Len(lines) THEN FALSE
    ELSE LET count == IF WordCount(lines[i]) <= 1 THEN single_word_line_count + 1
                      ELSE single_word_line_count
         IN IF count > max_allowed_single_word_lines THEN TRUE
            ELSE SingleWordLoop_no_reset(lines, i + 1, count)

\* heuristic 4: the loop over the lines from line i with the running count
RECURSIVE SingleWordLoop(_, _, _)
SingleWordLoop(lines, i, single_word_line_count) ==
    IF i > Len(lines) THEN FALSE
    ELSE LET count == IF WordCount(lines[i]) <= 1 THEN single_word_line_count + 1 ELSE 0
         IN IF count > max_allowed_single_word_lines THEN TRUE
            ELSE SingleWordLoop(lines, i + 1, count)

is_likely_table_or_figure(t) ==
    LET numeric_chars == Cardinality({i \in 1..Len(t) : isdigit(t[i])})
        total_chars == Len(t)
        newline_count == Count(t, NL)
    IN IF total_chars > 0 /\ 10 * numeric_chars > numeric_density_threshold * total_chars
       THEN TRUE
       ELSE IF newline_count > max_allowed_newlines THEN TRUE
       ELSE IF /\ total_chars > short_text_limit
               /\ total_chars < min_average_line_length * (newline_count + 1)
       THEN TRUE
       ELSE SingleWordLoop(Split(t, <<NL>>), 1, 0)

MaxRep == 12

\* pieces a block is made of
BlockTokens ==
    { <<"1">>, <<"a">>, <<" ">>, <<NL>>, <<"a", "a", "a", "a", "a", NL>>, <<"a", "a", "a", " ", "a", "a", "a", NL>>, <<"a", " ", "a", NL>>,
      <<"a", "a", "a", "a", "a", "a", NL, "a", "a", "a", " ", "a", "a", "a", NL>> }

Repeat(token, n) == Concat([i \in 1..n |-> token])

\* 200 digits among 250 characters
NoiseBlock == [i \in 1..250 |-> IF i <= 200 THEN "1" ELSE "a"]

\* 100 characters of prose in words of four letters, with one newline
ProseBlock == [i \in 1..100 |-> IF i = 50 THEN NL ELSE IF i % 5 = 0 THEN " " ELSE "a"]

Blocks ==
    {NoiseBlock, ProseBlock}
    \cup {Repeat(t1, n1) \o Repeat(t2, n2) :
            t1 \in BlockTokens, n1 \in 0..MaxRep, t2 \in BlockTokens, n2 \in 0..MaxRep}

InitBlock ==
    /\ block_text \in Blocks
    /\ block_result = NotCalled

Classify ==
    /\ block_result = NotCalled
    /\ block_result' = Returned(is_likely_table_or_figure(block_text))
    /\ UNCHANGED block_text

NextBlock == Classify /\ UNCHANGED <<transitionVars, parserVars, docVars, writerVars, translatorVars, extractVars, converterVars, linesVars>>

StartBlock == InitBlock /\ IdleTransition /\ IdleParser /\ IdleDoc /\ IdleWriter /\ IdleTranslator
    /\ IdleExtract /\ IdleConverter /\ IdleLines

SpecBlock == StartBlock /\ [][NextBlock]_vars

\* the four heuristics as the claim words them
DensityFires(t) ==
    Len(t) > 0 /\ 100 * Cardinality({i \in 1..Len(t) : t[i] \in DigitChars}) > 30 * Len(t)
NewlinesFire(t) == Cardinality({i \in 1..Len(t) : t[i] = NL}) > 10
ShortLinesFire(t) ==
    Len(t) > 10 /\ Len(t) < 5 * (Cardinality({i \in 1..Len(t) : t[i] = NL}) + 1)
SingleWordRunFires(t) ==
    LET lines == Split(t, <<NL>>)
    IN \E first \in 1..Len(lines) :
          /\ first + 5 <= Len(lines)
          /\ \A i \in first..(first + 5) : WordCount(lines[i]) <= 1

\* C7: is_likely_table_or_figure is true exactly when one of the four heuristics
\* fires; 200 digits among 250 characters are noise, 100 characters of prose with one
\* newline are not.
C7_ClassifierIsTheDisjunction ==
    block_result # NotCalled =>
        /\ block_result.val = (\/ DensityFires(block_text)
                               \/ NewlinesFire(block_text)
                               \/ ShortLinesFire(block_text)
                               \/ SingleWordRunFires(block_text))
        /\ block_text = NoiseBlock => block_result.val
        /\ block_text = ProseBlock => ~block_result.val

\* a block flagged by the run of single-word lines alone, met after a longer line
C7_Witness ==
    /\ block_result = Returned(TRUE)
    /\ ~DensityFires(block_text)
    /\ ~NewlinesFire(block_text)
    /\ ~ShortLinesFire(block_text)
    /\ \E i \in 1..Len(Split(block_text, <<NL>>)) : WordCount(Split(block_text, <<NL>>)[i]) > 1

(***************************************************************************)
(* ContentElement, Section, Document (formatters/markdown.py)              *)
(* A dict is a record; metadata is a sequence of <<key, value>> pairs; a   *)
(* reference to a Section of the tree is the path of indices leading to it.*)
(***************************************************************************)
EmptyDict == <<>>

\* ContentElement.__init__
ContentElement(element_type, text_, path, description, metadata) ==
    [element_type |-> element_type,
     text |-> text_,
     path |-> path,
     description |-> description,
     metadata |-> IF metadata # None THEN metadata ELSE EmptyDict]

\* Section.__init__
Section(title) == [title |-> title, content |-> <<>>, subsections |-> <<>>]

\* the Section a path leads to
RECURSIVE SectionAt(_, _)
SectionAt(sections, path) ==
    IF Len(path) = 1 THEN sections[path[1]]
    ELSE SectionAt(sections[path[1]].subsections, Tail(path))

\* Section.add_content on the Section at path
RECURSIVE AddContentAt(_, _, _)
AddContentAt(sections, path, content_element) ==
    IF Len(path) = 1
    THEN [sections EXCEPT ![path[1]].content = Append(@, content_element)]
    ELSE [sections EXCEPT ![path[1]].subsections = AddContentAt(@, Tail(path), content_element)]

\* Section.add_subsection on the Section at path
RECURSIVE AddSubsectionAt(_, _, _)
AddSubsectionAt(sections, path, subsection) ==
    IF Len(path) = 1
    THEN [sections EXCEPT ![path[1]].subsections = Append(@, subsection)]
    ELSE [sections EXCEPT ![path[1]].subsections = AddSubsectionAt(@, Tail(path), subsection)]

\* the paths of all Sections of a tree
RECURSIVE PathsOf(_)
PathsOf(sections) ==
    UNION {{<<i>>} \cup {<<i>> \o p : p \in PathsOf(sections[i].subsections)} :
             i \in 1..Len(sections)}

\* how many Sections, and how many ContentElements, a tree holds
RECURSIVE SectionCount(_)
SectionCount(sections) ==
    IF sections = <<>> THEN 0
    ELSE 1 + SectionCount(Head(sections).subsections) + SectionCount(Tail(sections))

RECURSIVE ElementCount(_)
ElementCount(sections) ==
    IF sections = <<>> THEN 0
    ELSE Len(Head(sections).content) + ElementCount(Head(sections).subsections)
         + ElementCount(Tail(sections))

\* ContentElement.to_json
ContentElement_to_json(elem) ==
    [type |-> elem.element_type,
     text |-> elem.text,
     path |-> elem.path,
     description |-> elem.description,
     metadata |-> elem.metadata]

\* Section.to_json
RECURSIVE Section_to_json(_)
Section_to_json(section) ==
    [title |-> section.title,
     content |-> [i \in 1..Len(section.content) |-> ContentElement_to_json(section.content[i])],
     subsections |->
        [i \in 1..Len(section.subsections) |-> Section_to_json(section.subsections[i])]]

\* Document.to_json
Document_to_json(sections) == [i \in 1..Len(sections) |-> Section_to_json(sections[i])]

\* the parameters ContentElement.__init__ accepts as keywords
InitParams == {"element_type", "text", "path", "description", "metadata"}

\* ContentElement(**content_data): an unexpected keyword, or element_type missing,
\* is a TypeError
ContentElementFromKwargs(content_data) ==
    LET keys == DOMAIN content_data
        arg(k) == IF k \in keys THEN content_data[k] ELSE None
    IN IF keys \subseteq InitParams /\ "element_type" \in keys
       THEN [exc |-> "None",
             val |-> ContentElement(content_data["element_type"], arg("text"), arg("path"),
                                    arg("description"), arg("metadata"))]
       ELSE [exc |-> "TypeError", val |-> ContentElement(None, None, None, None, None)]

\* the loop over section_data['content'] from element i
RECURSIVE ContentFromJson(_, _, _)
ContentFromJson(content_json, i, section) ==
    IF i > Len(content_json) THEN [exc |-> "None", val |-> section]
    ELSE LET elem == ContentElementFromKwargs(content_json[i])
         IN IF elem.exc # "None" THEN [exc |-> elem.exc, val |-> section]
            ELSE ContentFromJson(content_json, i + 1,
                    [section EXCEPT !.content = Append(@, elem.val)])

\* the body of the loop over json_data for one section_data: Section has no
\* from_json, so the first subsection raises AttributeError
SectionFromJson(section_data) ==
    LET with_content == ContentFromJson(section_data.content, 1, Section(section_data.title))
    IN IF with_content.exc # "None" THEN with_content
       ELSE IF section_data.subsections # <<>>
            THEN [exc |-> "AttributeError", val |-> with_content.val]
       ELSE with_content

\* Document.from_json: the loop over json_data from section i
RECURSIVE FromJsonLoop(_, _, _)
FromJsonLoop(data, i, sections) ==
    IF i > Len(data) THEN ReturnedSeq(sections)
    ELSE LET section == SectionFromJson(data[i])
         IN IF section.exc # "None" THEN RaisedSeq(section.exc)
            ELSE FromJsonLoop(data, i + 1, Append(sections, section.val))

Document_from_json(data) == FromJsonLoop(data, 1, <<>>)

(***************************************************************************)
(* Building a Document, and its JSON round trip (SpecJson)                 *)
(***************************************************************************)
MaxSections == 3
MaxElements == 1

SectionTitles == { <<"#", "U">>, <<" ", "V">> }

Paragraph(t) == ContentElement("paragraph", t, None, None, None)
Image(description, path) == ContentElement("image", None, path, description, None)

\* content elements of the documents serialized to JSON
JsonElements ==
    { Paragraph(<<"a", "b">>),
      Image(<<"d">>, <<"p">>),
      ContentElement("paragraph", <<"a", "b">>, None, None, << <<"page", 1>> >>),
      ContentElement("table", <<"a", "b">>, None, None, None) }

InitDoc ==
    /\ doc = <<>>
    /\ json_data = <<>>
    /\ from_json_result = NotCalled
    /\ markdown = <<>>
    /\ from_markdown_result = NotCalled
    /\ doc_pc = "build"

\* Document.add_section
add_section(title) ==
    /\ doc_pc = "build"
    /\ SectionCount(doc) < MaxSections
    /\ doc' = Append(doc, Section(title))
    /\ UNCHANGED <<json_data, from_json_result, markdown, from_markdown_result, doc_pc>>

\* Section.add_subsection on a Section of the document
add_subsection(path, title) ==
    /\ doc_pc = "build"
    /\ SectionCount(doc) < MaxSections
    /\ doc' = AddSubsectionAt(doc, path, Section(title))
    /\ UNCHANGED <<json_data, from_json_result, markdown, from_markdown_result, doc_pc>>

\* Section.add_content on a Section of the document
add_content(path, content_element) ==
    /\ doc_pc = "build"
    /\ ElementCount(doc) < MaxElements
    /\ doc' = AddContentAt(doc, path, content_element)
    /\ UNCHANGED <<json_data, from_json_result, markdown, from_markdown_result, doc_pc>>

AddSection == \E title \in SectionTitles : add_section(title)
AddSubsection == \E path \in PathsOf(doc), title \in SectionTitles : add_subsection(path, title)
AddJsonContent == \E path \in PathsOf(doc), elem \in JsonElements : add_content(path, elem)

\* json_data = doc.to_json()
ToJson ==
    /\ doc_pc = "build"
    /\ json_data' = Document_to_json(doc)
    /\ doc_pc' = "json"
    /\ UNCHANGED <<doc, from_json_result, markdown, from_markdown_result>>

\* Document.from_json(json_data)
FromJson ==
    /\ doc_pc = "json"
    /\ from_json_result' = Document_from_json(json_data)
    /\ doc_pc' = "loaded"
    /\ UNCHANGED <<doc, json_data, markdown, from_markdown_result>>

NextJson ==
    \/ AddSection /\ UNCHANGED <<transitionVars, parserVars, blockVars, writerVars, translatorVars, extractVars, converterVars, linesVars>>
    \/ AddSubsection /\ UNCHANGED <<transitionVars, parserVars, blockVars, writerVars, translatorVars, extractVars, converterVars, linesVars>>
    \/ AddJsonContent /\ UNCHANGED <<transitionVars, parserVars, blockVars, writerVars, translatorVars, extractVars, converterVars, linesVars>>
    \/ ToJson /\ UNCHANGED <<transitionVars, parserVars, blockVars, writerVars, translatorVars, extractVars, converterVars, linesVars>>
    \/ FromJson /\ UNCHANGED <<transitionVars, parserVars, blockVars, writerVars, translatorVars, extractVars, converterVars, linesVars>>

StartJson == InitDoc /\ IdleTransition /\ IdleParser /\ IdleBlock /\ IdleWriter /\ IdleTranslator
    /\ IdleExtract /\ IdleConverter /\ IdleLines

SpecJson == StartJson /\ [][NextJson]_vars

\* C4: for any Document d, Document.from_json(d.to_json()) completes and yields a
\* Document equal to d in titles, nesting, content order and every field of every
\* element, metadata included.
C4_JsonRoundTripExact ==
    doc_pc = "loaded" => from_json_result = ReturnedSeq(doc)

(***************************************************************************)
(* Markdown conversion of the Document tree                                *)
(***************************************************************************)
\* a string that is neither None nor empty
Truthy(s) == s # None /\ s # <<>>

\* ContentElement.to_markdown
ContentElement_to_markdown(elem) ==
    IF elem.element_type = "paragraph"
    THEN (IF Truthy(elem.text) THEN elem.text \o <<NL, NL>> ELSE <<>>)
    ELSE IF elem.element_type = "image"
    THEN (IF Truthy(elem.path) /\ Truthy(elem.description)
          THEN <<"!", "[">> \o elem.description \o <<"]", "(">> \o elem.path \o <<")", NL, NL>>
          ELSE <<>>)
    ELSE <<>>

\* Section.to_markdown(level); section_number does not reach the output
RECURSIVE Section_to_markdown(_, _)
Section_to_markdown(section, level) ==
    [i \in 1..level |-> "#"] \o <<" ">> \o section.title \o <<NL>>
    \o Concat([i \in 1..Len(section.content) |-> ContentElement_to_markdown(section.content[i])])
    \o Concat([i \in 1..Len(section.subsections) |->
                  Section_to_markdown(section.subsections[i], level + 1)])

\* Document.to_markdown
Document_to_markdown(sections) ==
    Concat([i \in 1..Len(sections) |-> Section_to_markdown(sections[i], 1)])

\* str.splitlines(): no empty last line after a final newline
SplitLines(s) ==
    LET pieces == Split(s, <<NL>>)
    IN IF pieces[Len(pieces)] = <<>> THEN Slice(pieces, 1, Len(pieces) - 1) ELSE pieces

\* line.lstrip('#')
LStripHash(line) == Slice(line, RunIn(line, 1, {"#"}), Len(line))

\* re.match(r'!\[.*\]\(.*\)', line)
IsImageLine(line) ==
    /\ StartsAt(line, <<"!", "[">>, 1)
    /\ \E i \in 3..Len(line) :
          /\ StartsAt(line, <<"]", "(">>, i)
          /\ \E j \in (i + 2)..Len(line) : line[j] = ")"

\* re.match(r'!\[(.*?)\]\((.*?)\)', line).groups() of an image line: the shortest
\* description, then the shortest path
ImageGroups(line) ==
    LET i == Find(line, <<"]", "(">>, 3)
        j == Find(line, <<")">>, i + 2)
    IN [description |-> Slice(line, 3, i - 1), path |-> Slice(line, i + 2, j - 1)]

NoSection == <<>>

\* the state of the loop of from_markdown before any line
ParseStart ==
    [sections |-> <<>>, current_section |-> NoSection, current_subsection |-> NoSection,
     section_stack |-> <<>>, exc |-> "None"]

\* the stack when the loop that pops the deeper sections is left out
PoppedBelow_no_pop(section_stack, level) == section_stack

\* section_stack after  while len(section_stack) >= level: section_stack.pop()
PoppedBelow(section_stack, level) ==
    IF Len(section_stack) >= level THEN Slice(section_stack, 1, level - 1) ELSE section_stack

\* a heading line
ParseHeading(st, line) ==
    LET level == Len(line) - Len(LStripHash(line))
        new_section == Section(Strip(LStripHash(line)))
        stack == PoppedBelow(st.section_stack, level)
        parent == stack[Len(stack)]
        child == parent \o <<Len(SectionAt(st.sections, parent).subsections) + 1>>
    IN IF level = 1
       THEN [st EXCEPT !.sections = Append(@, new_section),
                       !.current_section = <<Len(st.sections) + 1>>,
                       !.current_subsection = NoSection,
                       !.section_stack = << <<Len(st.sections) + 1>> >>]
       ELSE IF stack = <<>> THEN [st EXCEPT !.exc = "IndexError"]
       ELSE [st EXCEPT !.sections = AddSubsectionAt(@, parent, new_section),
                       !.current_subsection = child,
                       !.section_stack = Append(stack, child)]

\* an image or paragraph element goes to the current subsection, else to the current
\* section, else nowhere
ParseContent(st, content_element) ==
    IF st.current_subsection # NoSection
    THEN [st EXCEPT !.sections = AddContentAt(@, st.current_subsection, content_element)]
    ELSE IF st.current_section # NoSection
    THEN [st EXCEPT !.sections = AddContentAt(@, st.current_section, content_element)]
    ELSE st

\* the body of the loop over the lines
ParseLine(st, raw_line) ==
    LET line == Strip(raw_line)
    IN IF line # <<>> /\ line[1] = "#" THEN ParseHeading(st, line)
       ELSE IF IsImageLine(line)
       THEN ParseContent(st, Image(ImageGroups(line).description, ImageGroups(line).path))
       ELSE IF line # <<>> THEN ParseContent(st, Paragraph(line))
       ELSE st

RECURSIVE ParseLines(_, _, _)
ParseLines(lines, i, st) ==
    IF i > Len(lines) \/ st.exc # "None" THEN st
    ELSE ParseLines(lines, i + 1, ParseLine(st, lines[i]))

\* Document.from_markdown
Document_from_markdown(md) ==
    LET st == ParseLines(SplitLines(md), 1, ParseStart)
    IN IF st.exc = "None" THEN ReturnedSeq(st.sections) ELSE RaisedSeq(st.exc)

(***************************************************************************)
(* SpecMarkdown: a Document is built, rendered with to_markdown and read   *)
(* back with from_markdown                                                 *)
(***************************************************************************)
\* content elements of the documents rendered to Markdown
MarkdownElements ==
    { Paragraph(<<"a", "b">>),
      Image(<<"d">>, <<"p">>),
      ContentElement("paragraph", <<"a", "b">>, None, None, << <<"page", 1>> >>),
      Paragraph(<<"#", "a">>),
      Paragraph(<<"a", NL, "b">>),
      Image(<<>>, <<"p">>) }

AddMarkdownContent == \E path \in PathsOf(doc), elem \in MarkdownElements : add_content(path, elem)

\* markdown = doc.to_markdown()
ToMarkdown ==
    /\ doc_pc = "build"
    /\ markdown' = Document_to_markdown(doc)
    /\ doc_pc' = "markdown"
    /\ UNCHANGED <<doc, json_data, from_json_result, from_markdown_result>>

\* Document.from_markdown(markdown)
FromMarkdown ==
    /\ doc_pc = "markdown"
    /\ from_markdown_result' = Document_from_markdown(markdown)
    /\ doc_pc' = "parsed"
    /\ UNCHANGED <<doc, json_data, from_json_result, markdown>>

NextMarkdown ==
    \/ AddSection /\ UNCHANGED <<transitionVars, parserVars, blockVars, writerVars, translatorVars, extractVars, converterVars, linesVars>>
    \/ AddSubsection /\ UNCHANGED <<transitionVars, parserVars, blockVars, writerVars, translatorVars, extractVars, converterVars, linesVars>>
    \/ AddMarkdownContent /\ UNCHANGED <<transitionVars, parserVars, blockVars, writerVars, translatorVars, extractVars, converterVars, linesVars>>
    \/ ToMarkdown /\ UNCHANGED <<transitionVars, parserVars, blockVars, writerVars, translatorVars, extractVars, converterVars, linesVars>>
    \/ FromMarkdown /\ UNCHANGED <<transitionVars, parserVars, blockVars, writerVars, translatorVars, extractVars, converterVars, linesVars>>

StartMarkdown == InitDoc /\ IdleTransition /\ IdleParser /\ IdleBlock /\ IdleWriter /\ IdleTranslator
    /\ IdleExtract /\ IdleConverter /\ IdleLines

SpecMarkdown == StartMarkdown /\ [][NextMarkdown]_vars

\* a tree reduced to titles, nesting, and the type, text, path and description of the
\* content elements in their order
RECURSIVE TreeView(_)
TreeView(sections) ==
    [i \in 1..Len(sections) |->
        [title |-> sections[i].title,
         content |-> [k \in 1..Len(sections[i].content) |->
                         [element_type |-> sections[i].content[k].element_type,
                          text |-> sections[i].content[k].text,
                          path |-> sections[i].content[k].path,
                          description |-> sections[i].content[k].description]],
         subsections |-> TreeView(sections[i].subsections)]]

\* all Sections, and all ContentElements, of a tree
SectionsOf(sections) == {SectionAt(sections, p) : p \in PathsOf(sections)}
ElementsOf(sections) ==
    UNION {{s.content[k] : k \in 1..Len(s.content)} : s \in SectionsOf(sections)}

HasLineBreak(s) == s # None /\ \E i \in 1..Len(s) : s[i] = NL

SingleLineParagraphOrImage(elem) ==
    \/ elem.element_type = "paragraph" /\ ~HasLineBreak(elem.text)
    \/ elem.element_type = "image"

PlainTitle(title) == ~HasLineBreak(title) /\ Strip(title) = title

PlainParagraph(elem) ==
    /\ elem.element_type = "paragraph"
    /\ Truthy(elem.text) /\ elem.path = None /\ elem.description = None
    /\ ~HasLineBreak(elem.text) /\ Strip(elem.text) = elem.text
    /\ elem.text[1] # "#"
    /\ ~IsImageLine(elem.text)

PlainImage(elem) ==
    /\ elem.element_type = "image"
    /\ elem.text = None /\ Truthy(elem.description) /\ Truthy(elem.path)
    /\ ~HasLineBreak(elem.description) /\ ~HasLineBreak(elem.path)
    /\ Find(elem.description, <<"]", "(">>, 1) = 0
    /\ Find(elem.path, <<")">>, 1) = 0

PlainDocument(sections) ==
    /\ \A s \in SectionsOf(sections) : PlainTitle(s.title)
    /\ \A elem \in ElementsOf(sections) : PlainParagraph(elem) \/ PlainImage(elem)

TitleText(title, level) == [i \in 1..level |-> "#"] \o <<" ">> \o title \o <<NL, NL>>

\* Markdown.add_image: the text appended to content when the path exists
ImageText(image_path, alt_text) ==
    <<"!", "[">> \o alt_text \o <<"]", "(">> \o image_path \o <<")">>

\* Markdown.add_equation: the text appended to content
EquationText(equation) == <<"$", "$", NL>> \o equation \o <<NL, "$", "$", NL, NL>>

\* the pattern of the converter, <image: .+?>|<Imagen: .+?> : the two openers
TagOpeners == { <<"<", "i", "m", "a", "g", "e", ":", " ">>, <<"<", "I", "m", "a", "g", "e", "n", ":", " ">> }

\* the last position of the match of the pattern that starts at p, 0 when none: an
\* opener, one or more characters other than a newline, as few as possible, then '>'
TagEndAt(t, p) ==
    LET opened == {o \in TagOpeners : StartsAt(t, o, p)}
        s == p + Len(CHOOSE o \in opened : TRUE)
        ends == {j \in (s + 1)..Len(t) : t[j] = ">" /\ \A i \in s..(j - 1) : t[i] # NL}
    IN IF opened = {} \/ ends = {} THEN 0 ELSE CHOOSE j \in ends : \A h \in ends : j <= h

\* image_map.get('image_k', "") with the dict keyed by k
MapGet(image_map, k) == IF k \in DOMAIN image_map THEN image_map[k] ELSE <<>>

\* re.sub(pattern, replace_func, text): the matches from left to right, each replaced
\* by the entry of the counter, which then goes up by one
RECURSIVE ReplaceLoop(_, _, _, _, _)
ReplaceLoop(t, p, image_map, counter, out) ==
    IF p > Len(t) THEN [text |-> out, image_counter |-> counter]
    ELSE IF TagEndAt(t, p) = 0
    THEN ReplaceLoop(t, p + 1, image_map, counter, Append(out, t[p]))
    ELSE ReplaceLoop(t, TagEndAt(t, p) + 1, image_map, counter + 1,
                     out \o MapGet(image_map, counter))

\* replace_image_tags with a counter that starts at 0 in every call
replace_image_tags_local_counter(t, image_map, pattern, counter) ==
    IF pattern = None THEN [exc |-> "TypeError", text |-> t, image_counter |-> counter]
    ELSE [exc |-> "None"] @@ ReplaceLoop(t, 1, image_map, 0, <<>>)

\* Markdown.replace_image_tags; pattern None makes re.sub raise TypeError
replace_image_tags(t, image_map, pattern, counter) ==
    IF pattern = None THEN [exc |-> "TypeError", text |-> t, image_counter |-> counter]
    ELSE [exc |-> "None"] @@ ReplaceLoop(t, 1, image_map, counter, <<>>)

(***************************************************************************)
(* SpecWriter: calls on one Markdown writer, and ContentElement.to_markdown *)
(* on image elements, over a file system in which some paths exist         *)
(***************************************************************************)
MaxContent == 8
MaxTags == 2

WriterPaths == { <<"p">>, <<"q">> }
WriterTitles == { <<"T">> }
TitleLevels == 1..2
AltTexts == { <<>>, <<"d">> }
Equations == { <<"x">> }
WriterTexts == { <<"a", "b">>, <<"<", "i", "m", "a", "g", "e", ":", " ", "x", ">">>, <<"<", "I", "m", "a", "g", "e", "n", ":", " ", "y", ">", " ", "<", "i", "m", "a", "g", "e", ":", " ", "z", ">">> }
ImageTagPattern == <<"<", "i", "m", "a", "g", "e", ":", " ", ".", "+", "?", ">", "|", "<", "I", "m", "a", "g", "e", "n", ":", " ", ".", "+", "?", ">">>
ImageMaps ==
    { <<>>,
      [k \in {0} |-> ImageText(<<"p">>, <<"I", "0">>)],
      [k \in {0, 1} |-> ImageText(<<"p">>, <<"I">> \o <<IF k = 0 THEN "0" ELSE "1">>)] }
WriterElements == { Image(d, p) : d \in AltTexts, p \in WriterPaths }

InitWriter ==
    /\ content = <<>>
    /\ image_counter = 0
    /\ existing_paths \in SUBSET WriterPaths
    /\ writer_call = [op |-> "None", image_path |-> <<>>]
    /\ writer_exc = "None"
    /\ rendered = NotCalled

\* the model stops calling the writer once content or the counter has grown enough
WriterOpen == Len(content) <= MaxContent /\ image_counter <= MaxTags

add_title(title, level) ==
    /\ content' = content \o TitleText(title, level)
    /\ writer_call' = [op |-> "add_title", image_path |-> <<>>]
    /\ writer_exc' = "None"
    /\ rendered' = NotCalled
    /\ UNCHANGED <<image_counter, existing_paths>>

add_image(image_path, alt_text) ==
    /\ writer_call' = [op |-> "add_image", image_path |-> image_path]
    /\ IF image_path \notin existing_paths
       THEN writer_exc' = "FileNotFoundError" /\ content' = content
       ELSE writer_exc' = "None" /\ content' = content \o ImageText(image_path, alt_text)
    /\ rendered' = NotCalled
    /\ UNCHANGED <<image_counter, existing_paths>>

add_equation(equation) ==
    /\ content' = content \o EquationText(equation)
    /\ writer_call' = [op |-> "add_equation", image_path |-> <<>>]
    /\ writer_exc' = "None"
    /\ rendered' = NotCalled
    /\ UNCHANGED <<image_counter, existing_paths>>

add_text(t, image_map, pattern) ==
    LET r == IF image_map # <<>>
             THEN replace_image_tags(t, image_map, pattern, image_counter)
             ELSE [exc |-> "None", text |-> t, image_counter |-> image_counter]
    IN /\ writer_call' = [op |-> "add_text", image_path |-> <<>>,
                          text |-> t, image_map |-> image_map, pattern |-> pattern]
       /\ writer_exc' = r.exc
       /\ content' = IF r.exc = "None" THEN content \o r.text \o <<NL, NL>> ELSE content
       /\ image_counter' = r.image_counter
       /\ rendered' = NotCalled
       /\ UNCHANGED existing_paths

\* replace_image_tags called on the writer directly, as the converter does
call_replace_image_tags(t, image_map, pattern) ==
    LET r == replace_image_tags(t, image_map, pattern, image_counter)
    IN /\ writer_call' = [op |-> "replace_image_tags", image_path |-> <<>>,
                          text |-> t, image_map |-> image_map, pattern |-> pattern]
       /\ writer_exc' = r.exc
       /\ rendered' = IF r.exc = "None" THEN ReturnedSeq(r.text) ELSE RaisedSeq(r.exc)
       /\ image_counter' = r.image_counter
       /\ UNCHANGED <<content, existing_paths>>

\* ContentElement.to_markdown of an image element
render_image(elem) ==
    /\ writer_call' = [op |-> "to_markdown", image_path |-> elem.path]
    /\ rendered' = ReturnedSeq(ContentElement_to_markdown(elem))
    /\ writer_exc' = "None"
    /\ UNCHANGED <<content, image_counter, existing_paths>>

AddTitle == WriterOpen /\ \E title \in WriterTitles, level \in TitleLevels : add_title(title, level)
AddImage == WriterOpen /\ \E image_path \in WriterPaths, alt_text \in AltTexts : add_image(image_path, alt_text)
AddEquation == WriterOpen /\ \E equation \in Equations : add_equation(equation)
AddText ==
    /\ WriterOpen
    /\ \E t \in WriterTexts, image_map \in ImageMaps, pattern \in {None, ImageTagPattern} :
          add_text(t, image_map, pattern)
ReplaceImageTags ==
    /\ WriterOpen
    /\ \E t \in WriterTexts, image_map \in ImageMaps, pattern \in {None, ImageTagPattern} :
          call_replace_image_tags(t, image_map, pattern)
RenderImage == \E elem \in WriterElements : render_image(elem)

NextWriter ==
    \/ AddTitle /\ UNCHANGED <<transitionVars, parserVars, blockVars, docVars, translatorVars, extractVars, converterVars, linesVars>>
    \/ AddImage /\ UNCHANGED <<transitionVars, parserVars, blockVars, docVars, translatorVars, extractVars, converterVars, linesVars>>
    \/ AddEquation /\ UNCHANGED <<transitionVars, parserVars, blockVars, docVars, translatorVars, extractVars, converterVars, linesVars>>
    \/ AddText /\ UNCHANGED <<transitionVars, parserVars, blockVars, docVars, translatorVars, extractVars, converterVars, linesVars>>
    \/ ReplaceImageTags /\ UNCHANGED <<transitionVars, parserVars, blockVars, docVars, translatorVars, extractVars, converterVars, linesVars>>
    \/ RenderImage /\ UNCHANGED <<transitionVars, parserVars, blockVars, docVars, translatorVars, extractVars, converterVars, linesVars>>

StartWriter == InitWriter /\ IdleTransition /\ IdleParser /\ IdleBlock /\ IdleDoc /\ IdleTranslator
    /\ IdleExtract /\ IdleConverter /\ IdleLines

SpecWriter == StartWriter /\ [][NextWriter]_vars

\* C10: whenever an image is rendered for a path that does not exist, a not-found
\* failure is raised and no image reference is emitted: add_image raises
\* FileNotFoundError and leaves content unchanged, and ContentElement.to_markdown of
\* an image never returns a reference to the missing path.
C10_MissingImageIsAFailure ==
    [][ /\ (writer_call'.op = "add_image" /\ writer_call'.image_path \notin existing_paths)
            => (writer_exc' = "FileNotFoundError" /\ content' = content)
        /\ (writer_call'.op = "to_markdown" /\ writer_call'.image_path \notin existing_paths)
            => (rendered'.exc = "None"
                   => Find(rendered'.val, <<"]", "(">> \o writer_call'.image_path \o <<")">>, 1) = 0)
      ]_vars

(***************************************************************************)
(* SpecTranslator: set_translator and translate calls on one Translator    *)
(***************************************************************************)
MaxCalls == 3

\* translator objects handed to set_translator; None can be handed in as well
TranslatorObjects == { <<"echo">>, <<"blank">>, <<"tag">> }
TranslateTexts == { <<>>, <<"H", "e", "l", "l", "o">> }

\* t.translate(text) of a translator object of the translation library
ObjectTranslate(t, t_text) ==
    IF t = <<"echo">> THEN t_text
    ELSE IF t = <<"blank">> THEN <<>>
    ELSE <<"e", "s", ":">> \o t_text

\* Translator.translate without the check of the stored translator
Translator_translate_no_check(stored, t_text) == ReturnedSeq(ObjectTranslate(stored, t_text))

\* Translator.translate
Translator_translate(stored, t_text) ==
    IF stored = None THEN RaisedSeq("NotImplementedError")
    ELSE ReturnedSeq(ObjectTranslate(stored, t_text))

\* Translator.__init__
InitTranslator ==
    /\ translator = None
    /\ translator_log = <<>>

set_translator(t) ==
    /\ translator' = t
    /\ translator_log' = Append(translator_log, [op |-> "set_translator", arg |-> t,
                                                 result |-> ReturnedSeq(<<>>)])

translate(t_text) ==
    /\ translator_log' = Append(translator_log, [op |-> "translate", arg |-> t_text,
                                                 result |-> Translator_translate(translator, t_text)])
    /\ UNCHANGED translator

SetTranslator ==
    /\ Len(translator_log) < MaxCalls
    /\ \E t \in TranslatorObjects \cup {None} : set_translator(t)

Translate ==
    /\ Len(translator_log) < MaxCalls
    /\ \E t_text \in TranslateTexts : translate(t_text)

NextTranslator ==
    \/ SetTranslator /\ UNCHANGED <<transitionVars, parserVars, blockVars, docVars, writerVars, extractVars, converterVars, linesVars>>
    \/ Translate /\ UNCHANGED <<transitionVars, parserVars, blockVars, docVars, writerVars, extractVars, converterVars, linesVars>>

StartTranslator == InitTranslator /\ IdleTransition /\ IdleParser /\ IdleBlock /\ IdleDoc /\ IdleWriter
    /\ IdleExtract /\ IdleConverter /\ IdleLines

SpecTranslator == StartTranslator /\ [][NextTranslator]_vars

\* the argument of the last set_translator among the first n calls, None when none
RECURSIVE LastSet(_, _)
LastSet(log, n) ==
    IF n = 0 THEN None
    ELSE IF log[n].op = "set_translator" THEN log[n].arg
    ELSE LastSet(log, n - 1)

\* C11: over any sequence of calls, translate raises NotImplementedError exactly when
\* the stored translator is None, which is the argument of the last set_translator
\* (None before any); otherwise it returns what that translator object returns for
\* the text; and the stored translator is the argument of the last set_translator.
C11_TranslateNeedsATranslator ==
    /\ translator = LastSet(translator_log, Len(translator_log))
    /\ \A i \in 1..Len(translator_log) :
          translator_log[i].op = "translate" =>
             /\ translator_log[i].result.exc = "NotImplementedError"
                   <=> LastSet(translator_log, i - 1) = None
             /\ translator_log[i].result.exc \in {"None", "NotImplementedError"}
             /\ translator_log[i].result.exc = "None" =>
                   translator_log[i].result.val =
                      ObjectTranslate(LastSet(translator_log, i - 1), translator_log[i].arg)

C11_Witness ==
    /\ Len(translator_log) = 3
    /\ translator_log[1].op = "translate" /\ translator_log[1].result.exc = "NotImplementedError"
    /\ translator_log[2].op = "set_translator" /\ translator_log[2].arg = <<"tag">>
    /\ translator_log[3].op = "translate" /\ translator_log[3].result = ReturnedSeq(<<"e", "s", ":", "H", "e", "l", "l", "o">>)

(***************************************************************************)
(* The validator as a left fold (checked under SpecPost)                   *)
(***************************************************************************)
\* a is before b as tuples of integers: they first differ at k, where a has ended or
\* holds the smaller integer
IntTupleBefore(a, b) ==
    \E k \in 1..Len(b) :
        /\ \A j \in 1..(k - 1) : j <= Len(a) /\ a[j] = b[j]
        /\ (k > Len(a) \/ (k <= Len(a) /\ a[k] < b[k]))

\* the place of every candidate in the order of the numerals: one more than the number
\* of candidates that go before it, by numeral or, when the numerals tie, by text order
NumeralRank(cands) ==
    LET keys == [i \in 1..Len(cands) |-> Parts(cands[i][1])]
    IN [i \in 1..Len(cands) |->
           1 + Cardinality({j \in 1..Len(cands) :
                               \/ IntTupleBefore(keys[j], keys[i])
                               \/ (keys[j] = keys[i] /\ j < i)})]

\* a candidate passes against the last accepted heading
PassesBothChecks(last_cand, cand) ==
    /\ ~is_large_gap(last_cand[1], cand[1])
    /\ is_valid_section_transition(last_cand[1], cand[1]) = Returned(TRUE)

\* the positions, in the ordered list, of the candidates the fold accepts
FoldAccepted(ordered) ==
    CHOOSE A \in SUBSET (1..Len(ordered)) :
        \A i \in 1..Len(ordered) :
            i \in A <=>
               LET earlier == {j \in A : j < i}
               IN \/ earlier = {}
                  \/ PassesBothChecks(ordered[CHOOSE j \in earlier : \A h \in earlier : h <= j],
                                      ordered[i])

RECURSIVE Pick(_, _, _)
Pick(ordered, A, i) ==
    IF i > Len(ordered) THEN <<>>
    ELSE (IF i \in A THEN <<ordered[i]>> ELSE <<>>) \o Pick(ordered, A, i + 1)

LeftFold(cands) ==
    LET rank == NumeralRank(cands)
        ordered == [r \in 1..Len(cands) |-> cands[CHOOSE i \in 1..Len(cands) : rank[i] = r]]
    IN Pick(ordered, FoldAccepted(ordered), 1)

\* C12: post_process_sections never raises and returns exactly the left fold: the
\* candidates in the order of their numerals as integer tuples (ties in text order),
\* the first accepted, each later one accepted iff it passes the large-gap check and the
\* transition check against the most recently accepted one.
C12_PostProcessIsTheLeftFold ==
    pc # "post" => (pc = "content" /\ processed_sections = LeftFold(filtered_sections))

\* 1, 9 and 10 in any text order: 9 is rejected against 1, and 10 is then compared
\* with 1, not with 9
C12_Witness ==
    /\ pc = "content"
    /\ {filtered_sections[i][1] : i \in 1..Len(filtered_sections)} = {<<"1">>, <<"9">>, <<"1", "0">>}
    /\ Len(processed_sections) = 1
    /\ filtered_sections[1][1] = <<"1", "0">>

(***************************************************************************)
(* The References cut (checked under SpecParser)                           *)
(***************************************************************************)
ReferencesLine == <<"R", "e", "f", "e", "r", "e", "n", "c", "e", "s">>

\* a body up to, and without, its first line that is exactly References
CutAtReferencesLine(body) ==
    LET lines == Split(body, <<NL>>)
        hits == {k \in 1..Len(lines) : lines[k] = ReferencesLine}
        first == CHOOSE k \in hits : \A h \in hits : k <= h
    IN IF hits = {} THEN body ELSE Join(Slice(lines, 1, first - 1), <<NL>>)

\* C13: only the body of the final section is truncated, at the first line that is
\* exactly References (also when that is the first line left after the heading lines
\* are stripped; a line that only starts with References does not count); the bodies
\* of the other sections are what the heading strip left.
C13_ReferencesCut ==
    pc = "done" =>
        \A i \in 1..Len(extracted_sections) :
            extracted_sections[i][2] =
                IF i = Len(extracted_sections)
                THEN CutAtReferencesLine(SectionContent(text, processed_sections, i))
                ELSE SectionContent(text, processed_sections, i)

(***************************************************************************)
(* SpecExtract: PDFParser.extract_text, the blocks of the pages and the    *)
(* cleanup of the collected text                                           *)
(***************************************************************************)
\* re.sub(c+, c, s) for one character c: every run of c becomes one c
RECURSIVE CollapseRuns(_, _)
CollapseRuns(s, c) ==
    IF s = <<>> THEN <<>>
    ELSE IF s[1] = c THEN <<c>> \o CollapseRuns(Slice(s, RunIn(s, 1, {c}), Len(s)), c)
    ELSE <<s[1]>> \o CollapseRuns(Tail(s), c)

\* s.replace(old, ''): the occurrences of old from left to right, without overlap
RECURSIVE RemoveAll(_, _)
RemoveAll(s, old) ==
    LET k == Find(s, old, 1)
    IN IF k = 0 THEN s
       ELSE Slice(s, 1, k - 1) \o RemoveAll(Slice(s, k + Len(old), Len(s)), old)

\* the three steps of the basic cleanup, in the order of the code
BasicCleanup(t) == RemoveAll(CollapseRuns(CollapseRuns(t, NL), " "), <<"-", NL>>)

\* the loop over the blocks: stripped, and appended with a newline unless it looks
\* like a table or a figure
RECURSIVE CollectBlocks(_)
CollectBlocks(blocks) ==
    IF blocks = <<>> THEN <<>>
    ELSE LET stripped == Strip(Head(blocks))
         IN (IF is_likely_table_or_figure(stripped) THEN <<>> ELSE stripped \o <<NL>>)
            \o CollectBlocks(Tail(blocks))

MaxBlocks == 2

\* text blocks of a page
BlockTexts ==
    { <<"a", "b">>,
      <<"a", " ", "-", NL, " ", "b">>,
      <<"a", "-", NL, "b">>,
      <<"a", NL, NL, "b">>,
      <<"a", " ", " ", "b", " ">>,
      <<"-">>,
      <<>>,
      <<"a", " ", NL, "-", NL, NL, "-", "b">>,
      <<"1", "2", " ", "3", "4">> }

InitExtract ==
    /\ pdf_blocks \in UNION {[1..n -> BlockTexts] : n \in 0..MaxBlocks}
    /\ page_text = <<>>
    /\ extract_pc = "blocks"

\* the loop over the pages and their blocks
ReadBlocks ==
    /\ extract_pc = "blocks"
    /\ page_text' = CollectBlocks(pdf_blocks)
    /\ extract_pc' = "cleanup"
    /\ UNCHANGED pdf_blocks

\* the basic cleanup, and the return
Cleanup ==
    /\ extract_pc = "cleanup"
    /\ page_text' = BasicCleanup(page_text)
    /\ extract_pc' = "done"
    /\ UNCHANGED pdf_blocks

NextExtract ==
    \/ ReadBlocks /\ UNCHANGED <<transitionVars, parserVars, blockVars, docVars, writerVars, translatorVars, converterVars, linesVars>>
    \/ Cleanup /\ UNCHANGED <<transitionVars, parserVars, blockVars, docVars, writerVars, translatorVars, converterVars, linesVars>>

StartExtract ==
    /\ InitExtract /\ IdleTransition /\ IdleParser /\ IdleBlock /\ IdleDoc /\ IdleWriter
    /\ IdleTranslator /\ IdleConverter /\ IdleLines

SpecExtract == StartExtract /\ [][NextExtract]_vars

\* C14: the text extract_text returns holds no two consecutive newlines, no two
\* consecutive spaces and no hyphen directly followed by a newline.
C14_CleanTextHasNoRuns ==
    extract_pc = "done" =>
        /\ Find(page_text, <<NL, NL>>, 1) = 0
        /\ Find(page_text, <<" ", " ">>, 1) = 0
        /\ Find(page_text, <<"-", NL>>, 1) = 0

(***************************************************************************)
(* SpecLines: Document.from_markdown on any sequence of lines, one line of *)
(* the loop per step                                                       *)
(***************************************************************************)
MaxLines == 4

\* lines of a Markdown text
MarkdownLines ==
    { <<"#", " ", "A">>, <<"#", "#", " ", "B">>, <<"#", "#", "#", " ", "C">>, <<"#", "#", "#", "#", " ", "D">>,
      <<"a", "b">>, <<"!", "[", "d", "]", "(", "p", ")">>, <<>> }

InitLines ==
    /\ md_lines \in UNION {[1..n -> MarkdownLines] : n \in 0..MaxLines}
    /\ md_i = 1
    /\ md_st = ParseStart
    /\ md_log = <<>>

\* the section a heading line has just opened
OpenedSection(st) ==
    IF st.current_subsection # NoSection THEN st.current_subsection ELSE st.current_section

\* one pass through the body of the loop
ReadLine ==
    /\ md_st.exc = "None"
    /\ md_i <= Len(md_lines)
    /\ md_st' = ParseLine(md_st, md_lines[md_i])
    /\ md_i' = md_i + 1
    /\ LET line == Strip(md_lines[md_i])
       IN md_log' = IF line # <<>> /\ line[1] = "#" /\ md_st'.exc = "None"
                    THEN Append(md_log, [depth |-> Len(line) - Len(LStripHash(line)),
                                         path |-> OpenedSection(md_st')])
                    ELSE md_log
    /\ UNCHANGED md_lines

NextLines ==
    ReadLine /\ UNCHANGED <<transitionVars, parserVars, blockVars, docVars, writerVars, translatorVars, extractVars, converterVars>>

StartLines ==
    /\ InitLines /\ IdleTransition /\ IdleParser /\ IdleBlock /\ IdleDoc /\ IdleWriter
    /\ IdleTranslator /\ IdleExtract /\ IdleConverter

SpecLines == StartLines /\ [][NextLines]_vars

\* how many '#' a line starts with, and the text after them
HeadingDepth(line) == RunIn(line, 1, {"#"}) - 1
HeadingTitle(line) == Strip(Slice(line, RunIn(line, 1, {"#"}), Len(line)))

\* the stack rule for a heading of depth d read with the tree and the stack as they are
StackRule(st, st_after, d, title) ==
    LET kept == Slice(st.section_stack, 1, IF Len(st.section_stack) < d
                                           THEN Len(st.section_stack) ELSE d - 1)
    IN IF d = 1
       THEN /\ st_after.sections = Append(st.sections, Section(title))
            /\ st_after.section_stack = << <<Len(st.sections) + 1>> >>
       ELSE /\ kept # <<>>
            /\ LET parent == kept[Len(kept)]
                   siblings == SectionAt(st.sections, parent).subsections
                   child == parent \o <<Len(siblings) + 1>>
               IN /\ SectionAt(st_after.sections, parent).subsections
                        = Append(siblings, Section(title))
                  /\ st_after.section_stack = Append(kept, child)

\* C15: from_markdown completes on every sequence of lines, and every heading line is
\* processed by the stack rule, also a heading of depth > 1 before any depth-1 heading.
C15_HeadingsFollowTheStackRule ==
    [][ LET line == Strip(md_lines[md_i])
        IN /\ md_st'.exc = "None"
           /\ (line # <<>> /\ line[1] = "#")
                 => StackRule(md_st, md_st', HeadingDepth(line), HeadingTitle(line))
      ]_vars

\* the place of the parent of the section at a path
ParentOf(path) == Slice(path, 1, Len(path) - 1)

\* two headings of the log with the same depth and no shallower heading between them
SameDepthRun(log, i, j) ==
    /\ i < j
    /\ log[i].depth = log[j].depth
    /\ \A k \in (i + 1)..(j - 1) : log[k].depth >= log[i].depth

\* C20: when the first heading line has depth 1, two heading lines of the same depth
\* with no shallower heading between them become subsections of the same parent, also
\* when an intermediate level was skipped.
C20_SameDepthHeadingsAreSiblings ==
    (md_log # <<>> /\ md_log[1].depth = 1) =>
        \A i, j \in 1..Len(md_log) :
            SameDepthRun(md_log, i, j) => ParentOf(md_log[i].path) = ParentOf(md_log[j].path)

\* What the loop does instead: the two become siblings when the first of them was
\* attached at its own depth d, that is, d - 1 ancestors were on the stack when it was
\* read; when a level was skipped before it, the second is attached below the first.
SiblingsUnlessALevelWasSkipped ==
    (md_log # <<>> /\ md_log[1].depth = 1) =>
        \A i, j \in 1..Len(md_log) :
            SameDepthRun(md_log, i, j) =>
                IF Len(md_log[i].path) = md_log[i].depth
                THEN ParentOf(md_log[i].path) = ParentOf(md_log[j].path)
                ELSE /\ Len(md_log[j].path) > Len(md_log[i].path)
                     /\ Slice(md_log[j].path, 1, Len(md_log[i].path)) = md_log[i].path

\* '#', '##', '###', '##': the two headings of depth 2 are siblings
SiblingsAfterADeeperHeading ==
    /\ Len(md_log) = 4
    /\ md_log[1].depth = 1 /\ md_log[2].depth = 2 /\ md_log[3].depth = 3 /\ md_log[4].depth = 2
    /\ md_log[2].path = <<1, 1>> /\ md_log[4].path = <<1, 2>>

(***************************************************************************)
(* The image counter of the writer (checked under SpecWriter)              *)
(***************************************************************************)
\* the image tags of a text from position p on, from left to right without overlap,
\* each as its first and last position
RECURSIVE TagSpans(_, _)
TagSpans(t, p) ==
    LET starts == {q \in p..Len(t) : TagEndAt(t, q) # 0}
        q0 == CHOOSE q \in starts : \A r \in starts : q <= r
    IN IF starts = {} THEN <<>>
       ELSE << <<q0, TagEndAt(t, q0)>> >> \o TagSpans(t, TagEndAt(t, q0) + 1)

\* the text with its n-th tag (n from 1) replaced by the entry image_(first + n - 1) of
\* the map, or by nothing when the map has no such entry
SubstituteTags(t, image_map, first) ==
    LET spans == TagSpans(t, 1)
        n == Len(spans)
        before(i) == Slice(t, IF i = 1 THEN 1 ELSE spans[i - 1][2] + 1, spans[i][1] - 1)
        entry(i) == IF (first + i - 1) \in DOMAIN image_map
                    THEN image_map[first + i - 1] ELSE <<>>
    IN IF n = 0 THEN t
       ELSE Concat([i \in 1..n |-> before(i) \o entry(i)])
            \o Slice(t, spans[n][2] + 1, Len(t))

\* a call that runs the substitution to its end
Substituting ==
    /\ writer_call'.op \in {"replace_image_tags", "add_text"}
    /\ writer_exc' = "None"
    /\ (writer_call'.op = "add_text" => writer_call'.image_map # <<>>)

\* C18: over any sequence of calls on one writer, the k-th tag matched overall is
\* replaced by the entry image_k of the map of its call, or by the empty string when
\* the map has no such entry; image_counter starts at 0, goes up by the number of tags
\* every substitution matches, and is changed by nothing else, so it never decreases
\* or resets.
C18_CounterNumbersTheTagsAcrossCalls ==
    /\ image_counter = 0
    /\ [][ /\ image_counter' >= image_counter
           /\ IF Substituting
              THEN /\ image_counter' = image_counter + Len(TagSpans(writer_call'.text, 1))
                   /\ writer_call'.op = "replace_image_tags" =>
                         rendered' = ReturnedSeq(SubstituteTags(writer_call'.text,
                                                                writer_call'.image_map, image_counter))
                   /\ writer_call'.op = "add_text" =>
                         content' = content \o SubstituteTags(writer_call'.text,
                                                              writer_call'.image_map, image_counter)
                                            \o <<NL, NL>>
              ELSE image_counter' = image_counter
         ]_vars

\* the same call for the second time on one writer: its tag is now replaced by the
\* entry image_1
C18_Witness ==
    /\ writer_call.op = "replace_image_tags"
    /\ writer_call.text = <<"<", "i", "m", "a", "g", "e", ":", " ", "x", ">">>
    /\ image_counter = 2
    /\ rendered = ReturnedSeq(ImageText(<<"p">>, <<"I", "1">>))

(***************************************************************************)
(* The raw spans of the sections (checked under SpecPost)                  *)
(***************************************************************************)
\* the offsets of the raw span of the i-th validated heading: from its start up to
\* the start of the next one, or to the end of the text
RawSpan(t, processed, i) ==
    LET start_content == processed[i][3]
        end_content == IF i + 1 <= Len(processed) THEN processed[i + 1][3] ELSE Len(t)
    IN start_content..(end_content - 1)

\* C19: in the list of validated headings the start offsets are strictly increasing,
\* so every raw span is non-empty and no offset of the text lies in two spans.
C19_SpansAreDisjoint ==
    pc = "content" =>
        /\ \A i \in 1..(Len(processed_sections) - 1) :
              processed_sections[i][3] < processed_sections[i + 1][3]
        /\ \A i \in 1..Len(processed_sections) :
              RawSpan(text, processed_sections, i) # {}
        /\ \A i, j \in 1..Len(processed_sections) :
              i # j => RawSpan(text, processed_sections, i)
                          \cap RawSpan(text, processed_sections, j) = {}

(***************************************************************************)
(* The converter (converters/NeurIPS.py)                                   *)
(***************************************************************************)
\* create_image_map: {f'image_{i}': f'![Image {i}]({path})'} with the dict keyed by i
ImageMapOf(paths) ==
    [k \in 0..(Len(paths) - 1) |-> ImageText(paths[k + 1], <<"I", "m", "a", "g", "e", " ">> \o <<DigitChar(k)>>)]

\* the match of !\[(.*?)\]\((.*?)\) that starts at p: the position of the first "]("
\* after which the line still holds a ")", and the position of that ")"; none when
\* mid is 0
ImageRefAt(t, p) ==
    LET OneLine(a, b) == \A i \in a..b : t[i] # NL
        Closes(j) == {k \in (j + 2)..Len(t) : t[k] = ")" /\ OneLine(j + 2, k - 1)}
        mids == {j \in (p + 2)..Len(t) :
                    StartsAt(t, <<"]", "(">>, j) /\ OneLine(p + 2, j - 1) /\ Closes(j) # {}}
        mid == CHOOSE j \in mids : \A h \in mids : j <= h
    IN IF ~StartsAt(t, <<"!", "[">>, p) \/ mids = {} THEN [mid |-> 0, close |-> 0]
       ELSE [mid |-> mid, close |-> CHOOSE k \in Closes(mid) : \A h \in Closes(mid) : k <= h]

\* replace_md_with_html: the <img> element for one image reference, width 300
ImgElement(alt_text, img_src) ==
    <<NL>> \o <<"<", "i", "m", "g", " ", "s", "r", "c", "=", "\"">> \o img_src \o <<"\"", " ", "a", "l", "t", "=", "\"">> \o alt_text
           \o <<"\"", " ", "w", "i", "d", "t", "h", "=", "\"", "3", "0", "0", "p", "x", "\"", ">">> \o <<NL>>

\* convert_images_to_html_with_width: re.sub over the text from position p on
RECURSIVE HtmlLoop(_, _, _)
HtmlLoop(t, p, out) ==
    IF p > Len(t) THEN out
    ELSE LET r == ImageRefAt(t, p)
         IN IF r.mid = 0 THEN HtmlLoop(t, p + 1, Append(out, t[p]))
            ELSE HtmlLoop(t, r.close + 1,
                          out \o ImgElement(Slice(t, p + 2, r.mid - 1),
                                            Slice(t, r.mid + 2, r.close - 1)))

convert_images_to_html_with_width(t) == HtmlLoop(t, 1, <<>>)

\* section_data.replace('\n', ' ')
NewlinesToSpaces(s) == [i \in 1..Len(s) |-> IF s[i] = NL THEN " " ELSE s[i]]

\* the level of a heading, one deeper than the converter computes it
TitleLevel_one_deeper(title) == Count(title, ".") + 3

\* num_periods + 2 with num_periods = title.count('.')
TitleLevel(title) == Count(title, ".") + 2

\* the Spanish title without the fallback to the English title
SpanishTitle_no_fallback(title, translated) == translated

\* spanish_title = translate(title); if not spanish_title: spanish_title = title
SpanishTitle(title, translated) == IF ~Truthy(translated) THEN title ELSE translated

\* Markdown.add_title and Markdown.add_text (one argument) on a writer held in a field
WithTitle(writer, title, level) ==
    [writer EXCEPT !.content = @ \o TitleText(title, level)]
WithText(writer, t) == [writer EXCEPT !.content = @ \o t \o <<NL, NL>>]

\* convert_images_to_html_with_width(writer.replace_image_tags(t, image_map, pattern))
\* and add_text of the result: the writer after the two calls, and the text added
WithBody(writer, t, image_map) ==
    LET r == replace_image_tags(t, image_map, ImageTagPattern, writer.image_counter)
        section_text == convert_images_to_html_with_width(r.text)
    IN [writer |-> WithText([writer EXCEPT !.image_counter = r.image_counter], section_text),
        text |-> section_text]

(***************************************************************************)
(* SpecConverter: parse_pdf, create_image_map and generate_markdown of one *)
(* converter, over texts made of heading lines with or without a body      *)
(***************************************************************************)
MaxUnits == 3

\* the lines under a heading: two lines of which the second holds an image tag
ConverterBody == <<NL, "B", "o", "d", "y", " ", "t", "e", "x", "t", NL, "S", "e", "e", " ", "<", "i", "m", "a", "g", "e", ":", " ", "a", ">", " ", "i", "t">>

\* a heading line alone, or with the body under it
ConverterUnits ==
    { <<"1", " ", "I", "n", "t", "r", "o">>,
      <<"1", " ", "I", "n", "t", "r", "o">> \o ConverterBody,
      <<"1", ".", "1", " ", "S", "e", "t", "u", "p">>,
      <<"1", ".", "1", ".", "1", " ", "T", "a", "s", "k", "s">> \o ConverterBody,
      <<"2", " ", "M", "o", "d", "e", "l", " ", "v", "1", ".", "5">>,
      <<"2", ".", "1", " ", "P", "r", "i", "o", "r">>,
      <<"2", ".", "1", " ", "P", "r", "i", "o", "r">> \o ConverterBody }

ConverterTexts == {TextOf(us) : us \in UNION {[1..n -> ConverterUnits] : n \in 0..MaxUnits}}

\* the paths extract_images returns
ConverterImagePaths == { <<>>, << <<"p">> >> }

\* NeurIPSPDFToSpanishMarkdown.__init__, with the text of the PDF at pdf_path
InitConverter ==
    /\ text \in ConverterTexts
    /\ matches = <<>>
    /\ filtered_sections = <<>>
    /\ processed_sections = <<>>
    /\ extracted_sections = <<>>
    /\ pc = "scan"
    /\ conv_translator \in TranslatorObjects \cup {None}
    /\ image_paths = <<>>
    /\ conv_image_map = <<>>
    /\ conv_i = 0
    /\ markdown_en = [content |-> <<>>, image_counter |-> 0]
    /\ markdown_es = [content |-> <<>>, image_counter |-> 0]
    /\ conv_pc = "new"
    /\ conv_log = <<>>

\* parse_pdf: NeurIPSParser(pdf_path) runs extract_sections, then extract_images
ParsePdf ==
    /\ conv_pc = "new"
    /\ \E found \in {FindIter(text, 1)} :
       \E filtered \in {FilterMatches(found)} :
       \E processed \in {post_process_sections(filtered)} :
       \E extracted \in {IF processed.exc = "None"
                         THEN TruncateReferences(ExtractContent(text, processed.val))
                         ELSE RaisedSeq(processed.exc)} :
          /\ matches' = found
          /\ filtered_sections' = filtered
          /\ processed_sections' = processed.val
          /\ extracted_sections' = extracted.val
          /\ pc' = IF extracted.exc = "None" THEN "done" ELSE extracted.exc
          /\ conv_pc' = IF extracted.exc = "None" THEN "parsed" ELSE extracted.exc
          /\ IF extracted.exc = "None"
             THEN image_paths' \in ConverterImagePaths
             ELSE image_paths' = image_paths
    /\ UNCHANGED <<text, conv_translator, conv_image_map, conv_i, markdown_en, markdown_es, conv_log>>

\* create_image_map
CreateImageMap ==
    /\ conv_pc = "parsed"
    /\ conv_image_map' = ImageMapOf(image_paths)
    /\ UNCHANGED <<parserVars, conv_translator, image_paths, conv_i, markdown_en, markdown_es,
                   conv_pc, conv_log>>

TitleCall(d, i, level, title) ==
    [doc |-> d, op |-> "add_title", section |-> i, level |-> level, text |-> title]
TextCall(d, i, t) ==
    [doc |-> d, op |-> "add_text", section |-> i, level |-> 0, text |-> t]

\* generate_markdown: one pass through the body of the loop over self.sections
GenerateSection ==
    /\ conv_pc \in {"parsed", "generate"}
    /\ conv_i < Len(extracted_sections)
    /\ LET i == conv_i + 1
           title == extracted_sections[i][1]
           translated_title == Translator_translate(conv_translator, title)
           spanish_title == SpanishTitle(title, translated_title.val)
           level == TitleLevel(title)
           section_data == NewlinesToSpaces(extracted_sections[i][2])
           translated_data == Translator_translate(conv_translator, section_data)
       IN IF translated_title.exc # "None"
          THEN /\ conv_pc' = translated_title.exc
               /\ UNCHANGED <<conv_i, markdown_en, markdown_es, conv_log>>
          ELSE IF ~Truthy(extracted_sections[i][2])
          THEN /\ markdown_en' = WithTitle(markdown_en, title, level)
               /\ markdown_es' = WithTitle(markdown_es, spanish_title, level)
               /\ conv_log' = conv_log \o << TitleCall("en", i, level, title),
                                             TitleCall("es", i, level, spanish_title) >>
               /\ conv_i' = i
               /\ conv_pc' = "generate"
          ELSE \E en \in {WithBody(WithTitle(markdown_en, title, level), section_data,
                                     conv_image_map)} :
               \E es \in {WithBody(WithTitle(markdown_es, spanish_title, level),
                                     translated_data.val, conv_image_map)} :
                  /\ markdown_en' = en.writer
                  /\ markdown_es' = es.writer
                  /\ conv_log' = conv_log \o << TitleCall("en", i, level, title),
                                                TitleCall("es", i, level, spanish_title),
                                                TextCall("en", i, en.text),
                                                TextCall("es", i, es.text) >>
                  /\ conv_i' = i
                  /\ conv_pc' = "generate"
    /\ UNCHANGED <<parserVars, conv_translator, image_paths, conv_image_map>>

\* generate_markdown: the end of the loop and the two save_markdown calls
SaveMarkdown ==
    /\ conv_pc \in {"parsed", "generate"}
    /\ conv_i = Len(extracted_sections)
    /\ conv_pc' = "saved"
    /\ UNCHANGED <<parserVars, conv_translator, image_paths, conv_image_map, conv_i, markdown_en,
                   markdown_es, conv_log>>

NextConverter ==
    \/ ParsePdf /\ UNCHANGED <<transitionVars, blockVars, docVars, writerVars, translatorVars, extractVars, linesVars>>
    \/ CreateImageMap /\ UNCHANGED <<transitionVars, blockVars, docVars, writerVars, translatorVars, extractVars, linesVars>>
    \/ GenerateSection /\ UNCHANGED <<transitionVars, blockVars, docVars, writerVars, translatorVars, extractVars, linesVars>>
    \/ SaveMarkdown /\ UNCHANGED <<transitionVars, blockVars, docVars, writerVars, translatorVars, extractVars, linesVars>>

StartConverter ==
    InitConverter /\ IdleTransition /\ IdleBlock /\ IdleDoc /\ IdleWriter /\ IdleTranslator
    /\ IdleExtract /\ IdleLines

SpecConverter == StartConverter /\ [][NextConverter]_vars

(***************************************************************************)
(* Claims about generate_markdown (SpecConverter)                          *)
(***************************************************************************)
\* the number of components of the numeral of the i-th accepted heading
ComponentsOf(i) == Len(Split(processed_sections[i][1], <<".">>))

\* the calls of one kind made on one of the two writers, in their order
RECURSIVE CallsFrom(_, _, _)
CallsFrom(d, op, k) ==
    IF k > Len(conv_log) THEN <<>>
    ELSE (IF conv_log[k].doc = d /\ conv_log[k].op = op THEN <<conv_log[k]>> ELSE <<>>)
         \o CallsFrom(d, op, k + 1)

CallsOn(d, op) == CallsFrom(d, op, 1)

\* the heading of section i is emitted, in both documents, at level d + 1, d being the
\* number of components of its numeral
LevelFollowsComponents ==
    \A k \in 1..Len(conv_log) :
        conv_log[k].op = "add_title" => conv_log[k].level = ComponentsOf(conv_log[k].section) + 1

\* heading j is the nearest heading before heading i with fewer components than i, and
\* it has exactly one component less
ParentHeading(j, i) ==
    /\ j < i
    /\ ComponentsOf(j) = ComponentsOf(i) - 1
    /\ \A k \in (j + 1)..(i - 1) : ComponentsOf(k) >= ComponentsOf(i)

Parsed == conv_pc \in {"parsed", "generate", "saved"}

\* C16: every extracted section whose numeral has d components sits one level below
\* the most recently accepted heading with d-1 components, and generate_markdown emits
\* its heading at level d+1 whatever its title is.
C16_NestedByNumeralDepth ==
    Parsed =>
        /\ \A i \in 1..Len(processed_sections) :
              ComponentsOf(i) >= 2 => \E j \in 1..(i - 1) : ParentHeading(j, i)
        /\ LevelFollowsComponents

\* C16 (amended): generate_markdown emits the heading of every extracted section at
\* level d+1, d being the number of components of its numeral, whatever its title is;
\* and a section that comes after an accepted heading with fewer components sits one
\* level below the most recently accepted heading with d-1 components, with no
\* shallower heading in between. The first accepted heading may have two or more
\* components, and then it and the headings after it have no such heading above them
\* until a shallower one is accepted.
C16_NestedBelowAnEarlierShallowerHeading ==
    Parsed =>
        /\ \A i \in 1..Len(processed_sections) :
              (\E h \in 1..(i - 1) : ComponentsOf(h) < ComponentsOf(i))
                  => \E j \in 1..(i - 1) : ParentHeading(j, i)
        /\ LevelFollowsComponents

C16_Witness ==
    /\ conv_pc = "saved"
    /\ Len(processed_sections) = 3
    /\ ComponentsOf(1) = 1 /\ ParentHeading(1, 2) /\ ParentHeading(2, 3)
    /\ [k \in 1..3 |-> CallsOn("en", "add_title")[k].level] = <<2, 3, 4>>
    /\ [k \in 1..3 |-> CallsOn("es", "add_title")[k].level] = <<2, 3, 4>>

\* C17: for any translator output, including empty strings, generate_markdown emits
\* into the English and the Spanish document the same number of headings, in the same
\* order and with the same level for each section, and a body text block for a section
\* in one document if and only if in the other; when the translated title is empty the
\* English title is used.
C17_TranslationKeepsTheShape ==
    LET en_titles == CallsOn("en", "add_title")
        es_titles == CallsOn("es", "add_title")
        en_texts == CallsOn("en", "add_text")
        es_texts == CallsOn("es", "add_text")
    IN /\ Len(en_titles) = conv_i /\ Len(es_titles) = conv_i
       /\ \A k \in 1..conv_i :
             /\ en_titles[k].section = k /\ es_titles[k].section = k
             /\ en_titles[k].level = es_titles[k].level
             /\ en_titles[k].text = extracted_sections[k][1]
             /\ ObjectTranslate(conv_translator, extracted_sections[k][1]) = <<>>
                    => es_titles[k].text = extracted_sections[k][1]
       /\ [k \in 1..Len(en_texts) |-> en_texts[k].section]
              = [k \in 1..Len(es_texts) |-> es_texts[k].section]
       /\ \A k \in 1..Len(en_texts) :
             Find(markdown_en.content, en_texts[k].text \o <<NL, NL>>, 1) > 0
       /\ \A k \in 1..Len(es_texts) :
             Find(markdown_es.content, es_texts[k].text \o <<NL, NL>>, 1) > 0
       /\ \A k \in 1..conv_i :
             /\ Find(markdown_en.content, TitleText(en_titles[k].text, en_titles[k].level), 1) > 0
             /\ Find(markdown_es.content, TitleText(es_titles[k].text, es_titles[k].level), 1) > 0

C17_Witness ==
    /\ conv_pc = "saved"
    /\ conv_translator = <<"blank">>
    /\ conv_i >= 2
    /\ Len(CallsOn("es", "add_text")) >= 1
    /\ Len(CallsOn("es", "add_text")) < conv_i
    /\ CallsOn("es", "add_title")[1].text = extracted_sections[1][1]

====
